---------------------------- MODULE Spec2Model ----------------------------
(***************************************************************************)
(* The road simulation and scanline rasterizer of joyride (src/src/road.rs) *)
(* as a state machine.                                                      *)
(*                                                                          *)
(* Numbers.  The program computes in f32.  The model computes in fixed      *)
(* point, with integers, in three formats:                                  *)
(*   Z format: 1/ZF   depths, scales, seg_pos, z_offset, travel distances   *)
(*   X format: 1/XF   x_map, x_offset, world and screen X                   *)
(*   Y format: 1/YF   y_advancement_map and the running depth index         *)
(* A segment's curve is held as a count of curve_amt steps (1/CURVE_DEN)    *)
(* and its hill as a count of hill_amt steps (1/HILL_DEN), which is how     *)
(* test_curve_road changes them.  XF and YF are chosen so that every term   *)
(* of map_road_quadratic is an integer: the pass is computed exactly over   *)
(* the rounded depth table.  Divisions round as the code's do (to nearest   *)
(* for f32 division, toward zero for conv_trunc, down for floor).           *)
(***************************************************************************)
EXTENDS Integers, Sequences, FiniteSets, TLC

VARIABLES
    draw_height,        \* RoadDynamic.draw_height
    x_map,              \* RoadDynamic.x_map, X format
    y_map,              \* RoadDynamic.y_map
    x_offset,           \* RoadDynamic.x_offset, X format
    z_offset,           \* RoadDynamic.z_offset, Z format
    seg_idx,            \* RoadDynamic.seg_idx
    seg_pos,            \* RoadDynamic.seg_pos, Z format
    segs,               \* RoadDynamic.segs
    y_advancement_map,  \* HillScratchPad.y_advancement_map, Y format
    draw_buffer,        \* RoadDrawing.draw_buffer, one row of pixels per line
    ran,                \* the systems that have run in the current tick
    panicked,           \* the program aborted on a failed assertion
    call,               \* the last operation run, its inputs and its result
    racer,              \* the player's Racer: speed, turn_rate
    player,             \* Player: turn_buffer, control_loss
    input_state,        \* JoyrideInput: the debounced state of each key
    press_state,        \* JoyrideInputPressState: the press latch of each key
    state,              \* FixedFramerateState: accum_seconds, num_updates
    sampled,            \* the keys update_player_turning read since the turn
                        \* buffer was last reset, oldest first, the last
                        \* TURN_BUFFER_SIZE of them
    objects             \* the RoadObject of every road object entity

vars == <<draw_height, x_map, y_map, x_offset, z_offset, seg_idx, seg_pos,
          segs, y_advancement_map, draw_buffer, ran, panicked, call,
          racer, player, input_state, press_state, state, sampled,
          objects>>

\* The state outside the road: the player, the keys and the frame clock
gameVars == <<racer, player, input_state, press_state, state, sampled,
              objects>>

---------------------------------------------------------------------------
(* Constants of the program *)

FIELD_WIDTH == 320
FIELD_HEIGHT == 240
ROAD_DISTANCE == 110
MAX_ROAD_DRAW_HEIGHT == 170

\* Resolution of the Z format: 1.0 is ZF
ZF == 1000

\* TIME_STEP is 1/TICKS_PER_SECOND
TICKS_PER_SECOND == 30
\* curve_amt = TIME_STEP * 0.25 = 1/CURVE_DEN
CURVE_DEN == TICKS_PER_SECOND * 4
\* hill_amt = TIME_STEP * 0.01 = 1/HILL_DEN
HILL_DEN == TICKS_PER_SECOND * 100

\* Resolution of the X format: a curve step times a Z unit, halved
XF == 2 * CURVE_DEN * ZF
\* Resolution of the Y format: a hill step times a Z unit, halved
YF == 2 * HILL_DEN * ZF

\* Z format
CONVERGE_DISTANCE == 113400
CAMERA_HEIGHT == 75000
COLOR_SWITCH_Z_INTERVAL == 500
SEGMENT_LENGTH == 15000

\* whole numbers, as in the source
PAVEMENT_WIDTH == 125
CENTER_LINE_WIDTH == 2
RUMBLE_STRIP_WIDTH == 20

DEBUG_VIS_SEGMENTS == TRUE

\* the hill coefficients set to those of the curves
HILL_COEFF_of_curves == [x2 |-> 2, x |-> 0]

\* quadratic coefficients, in halves: {x2: 1.0, x: 0.0} and {x2: 0.5, x: 0.5}
CURVE_COEFF == [x2 |-> 2, x |-> 0]

HILL_COEFF == [x2 |-> 1, x |-> 1]

\* the clamp of update_road_hills, 0.00001 in Y format
MIN_ADVANCEMENT == YF \div 100000

---------------------------------------------------------------------------
(* Arithmetic *)

Abs(a) == IF a < 0 THEN -a ELSE a

\* a / b rounded to nearest, b > 0 (an f32 division)
RoundDiv(a, b) == IF a >= 0 THEN (2 * a + b) \div (2 * b)
                  ELSE -((2 * (-a) + b) \div (2 * b))

\* a / b rounded toward zero, b > 0 (conv_trunc of a quotient)
TruncDiv(a, b) == IF a >= 0 THEN a \div b ELSE -((-a) \div b)

\* a * b / c rounded toward zero for 0 <= b <= c, without leaving 32 bits
ScaleBy(a, b, c) ==
    LET m == Abs(a)
        q == (m \div c) * b + ((m % c) * b) \div c
    IN  IF a >= 0 THEN q ELSE -q

---------------------------------------------------------------------------
(* RoadStatic: the depth and scale tables, built once *)

\* build_road_static: z_map[i] = CAMERA_HEIGHT / (screen_y - converge_y)
build_z(i) ==
    LET converge_y == FIELD_HEIGHT * ZF - CONVERGE_DISTANCE
        screen_y == FIELD_HEIGHT * ZF - i * ZF
    IN  RoundDiv(CAMERA_HEIGHT * ZF, screen_y - converge_y)

z_map == [i \in 0..(ROAD_DISTANCE - 1) |-> build_z(i)]

\* build_road_static: scale_map[i] = 1.0 / z_map[i]
scale_map == [i \in 0..(ROAD_DISTANCE - 1) |-> RoundDiv(ZF * ZF, z_map[i])]

---------------------------------------------------------------------------
(* Bounds of the model *)

\* seg_idx is not advanced beyond this segment number
MaxSegIdx == 4
\* test_curve_road lowers a hill by at most this many steps (uphill)
MaxUphillSteps == 38
\* test_curve_road raises a hill by at most this many steps (downhill)
MaxDownhillSteps == 2
\* with the rasterizer: the distance travelled (Z format), and the hill steps
RenderMaxTravel == 250
RenderUphillSteps == 2

---------------------------------------------------------------------------
(* The player, the keys and the frame clock after startup *)

\* Option::None
None == [some |-> FALSE]

\* The keys of JoyrideInput
Keys == {"left", "right", "accel", "brake"}

\* The length of Player.turn_buffer
TURN_BUFFER_SIZE == 3

\* startup_player: make_racer with speed 0.0, and the Player resource
startup_player ==
    /\ racer = [speed |-> 0, turn_rate |-> 0, is_visible |-> TRUE]
    /\ player = [turn_buffer |-> [b \in 0..(TURN_BUFFER_SIZE - 1) |->
                                    [left |-> FALSE, right |-> FALSE]],
                 control_loss |-> None]
    /\ sampled = <<>>

\* startup_joyride: JoyrideInputPressState::default, JoyrideInput::default
startup_joyride ==
    /\ press_state = [k \in Keys |-> FALSE]
    /\ input_state = [k \in Keys |-> "Released"]

\* Times are held in units of 1/TIME_DEN of a second
TIME_DEN == TICKS_PER_SECOND * 100

\* TIME_STEP, 1/30 s
TIME_STEP == TIME_DEN \div TICKS_PER_SECOND

\* The FixedFramerate main sets for the top-level schedule: a step of
\* TIME_STEP, surplus time dropped, one run per frame
MainFramerate ==
    [fixed_step |-> TIME_STEP,
     drop_time_after_max_runs |-> TRUE,
     max_runs_per_step |-> [some |-> TRUE, value |-> 1]]

\* FixedFramerateState::new
FixedFramerateState_new(framerate) ==
    [accum_seconds |-> 0, num_updates |-> 0, framerate |-> framerate]

\* startup_road_objects: no segment of the road as built has a
\* spawn_object_type, so no object is spawned
startup_road_objects == objects = <<>>

\* The startup systems outside the road
startup_game ==
    /\ startup_player
    /\ startup_joyride
    /\ startup_road_objects
    /\ state = FixedFramerateState_new(MainFramerate)

---------------------------------------------------------------------------
(* RoadDynamic and the other state after startup *)

\* build_road_dynamic
build_road_dynamic ==
    /\ x_map = [i \in 0..(ROAD_DISTANCE - 1) |-> (FIELD_WIDTH * XF) \div 2]
    /\ y_map = [k \in 0..(MAX_ROAD_DRAW_HEIGHT - 1) |-> 0]
    /\ draw_height = ROAD_DISTANCE
    /\ x_offset = 0
    /\ z_offset = 0
    /\ seg_idx = 0
    /\ seg_pos = 0
    /\ segs = [s \in 0..1 |-> [curve |-> 0, hill |-> 0]]

\* HillScratchPad::default
HillScratchPadDefault ==
    y_advancement_map = [i \in 0..(ROAD_DISTANCE - 1) |-> YF]

\* RoadDrawing::default: every pixel 0.  Pixel x of line l is
\* draw_buffer[l][x], the flat buffer's entry l * FIELD_WIDTH + x.
RoadDrawingDefault ==
    [l \in 0..(MAX_ROAD_DRAW_HEIGHT - 1) |->
        [x \in 0..(FIELD_WIDTH - 1) |-> <<0, 0, 0, 0>>]]

\* The state after startup_road, with the rasterizer's buffer
Init ==
    /\ startup_game
    /\ build_road_dynamic
    /\ HillScratchPadDefault
    /\ draw_buffer = RoadDrawingDefault
    /\ ran = {}
    /\ panicked = FALSE
    /\ call = [op |-> "startup_road"]

\* The state after startup_road, of a specification without render_road:
\* the buffer, local to that system, is left out
InitRoad ==
    /\ startup_game
    /\ build_road_dynamic
    /\ HillScratchPadDefault
    /\ draw_buffer = <<>>
    /\ ran = {}
    /\ panicked = FALSE
    /\ call = [op |-> "startup_road"]

---------------------------------------------------------------------------
(* RoadDynamic::advance_z *)

\* advance_z with a single roll-over, taken only when the position exceeds
\* the segment length
advance_z_single_rollover(advance_amount_z) ==
    IF ~(advance_amount_z >= 0)
    THEN [seg_idx |-> seg_idx, seg_pos |-> seg_pos, z_offset |-> z_offset,
          panicked |-> TRUE]
    ELSE LET pos == seg_pos + advance_amount_z
             num_advance_segs == IF pos > SEGMENT_LENGTH THEN 1 ELSE 0
         IN  [seg_idx |-> seg_idx + num_advance_segs,
              seg_pos |-> pos - num_advance_segs * SEGMENT_LENGTH,
              z_offset |-> (z_offset + advance_amount_z)
                               % (COLOR_SWITCH_Z_INTERVAL * 2),
              panicked |-> FALSE]

\* advance_z with the assertion after the position update
advance_z_late_assert(advance_amount_z) ==
    LET pos == seg_pos + advance_amount_z
        num_advance_segs == pos \div SEGMENT_LENGTH
    IN  [seg_idx |-> seg_idx + num_advance_segs,
         seg_pos |-> pos - num_advance_segs * SEGMENT_LENGTH,
         z_offset |-> (z_offset + advance_amount_z)
                          % (COLOR_SWITCH_Z_INTERVAL * 2),
         panicked |-> ~(advance_amount_z >= 0)]

\* The road position after advance_z(advance_amount_z), and whether the
\* assertion failed
advance_z(advance_amount_z) ==
    IF ~(advance_amount_z >= 0)
    THEN [seg_idx |-> seg_idx, seg_pos |-> seg_pos, z_offset |-> z_offset,
          panicked |-> TRUE]
    ELSE LET pos == seg_pos + advance_amount_z
             num_advance_segs == pos \div SEGMENT_LENGTH
         IN  [seg_idx |-> seg_idx + num_advance_segs,
              seg_pos |-> pos - num_advance_segs * SEGMENT_LENGTH,
              z_offset |-> (z_offset + advance_amount_z)
                               % (COLOR_SWITCH_Z_INTERVAL * 2),
              panicked |-> FALSE]

\* A call of advance_z from outside the game loop, with any distance
AdvanceZ(advance_amount_z) ==
    LET r == advance_z(advance_amount_z)
    IN  /\ ~panicked
        /\ r.seg_idx <= MaxSegIdx
        /\ seg_idx' = r.seg_idx
        /\ seg_pos' = r.seg_pos
        /\ z_offset' = r.z_offset
        /\ panicked' = r.panicked
        /\ call' = [op |-> "advance_z", amount |-> advance_amount_z]
        /\ UNCHANGED gameVars
        /\ UNCHANGED <<draw_height, x_map, y_map, x_offset, segs,
                       y_advancement_map, draw_buffer, ran>>

\* Distances advance_z is called with, Z format: negative, zero, inside a
\* segment, exactly one segment, several segments
AdvanceAmounts == {-250, 0, 250, 7000, SEGMENT_LENGTH, 2 * SEGMENT_LENGTH + 7500}

NextAdvance == \E a \in AdvanceAmounts : AdvanceZ(a)

SpecAdvance == InitRoad /\ [][NextAdvance]_vars

---------------------------------------------------------------------------
(* The fixed-step schedule of setup_game *)

\* The system set update_player_driving of player::Systems
update_player_driving ==
    {"update_player_turning", "update_player_speed", "update_player_crash",
     "test_modify_player"}

\* After without the chain of labels behind UpdateRoad: the visual systems
\* ordered after the player's position only
After_visuals_unchained(sys) ==
    CASE sys \in {"test_curve_road", "update_input"} -> {}
      [] sys \in update_player_driving -> {"update_input"}
      [] sys = "update_player_road_position" ->
            {"update_input"} \cup update_player_driving
      [] sys \in {"update_road_curvature", "update_road_hills"} ->
            {"update_input", "update_player_road_position"}
                \cup update_player_driving
      [] sys \in {"update_rivals", "check_passed_objects"} ->
            {"update_input", "update_player_road_position"}
                \cup update_player_driving
      [] sys \in {"update_rival_visuals", "render_road"} ->
            {"update_input", "update_player_road_position"}
                \cup update_player_driving

\* The systems that must have run in the tick before sys may, by the
\* labels of setup_game (an `after` reaches every system before the label)
After(sys) ==
    CASE sys \in {"test_curve_road", "update_input"} -> {}
      [] sys \in update_player_driving -> {"update_input"}
      [] sys = "update_player_road_position" ->
            {"update_input"} \cup update_player_driving
      [] sys \in {"update_road_curvature", "update_road_hills"} ->
            {"update_input", "update_player_road_position"}
                \cup update_player_driving
      [] sys = "update_rivals" ->
            {"update_input", "update_player_road_position",
             "update_road_curvature", "update_road_hills"}
                \cup update_player_driving
      [] sys = "check_passed_objects" ->
            {"update_input", "update_player_road_position",
             "update_road_curvature", "update_road_hills", "update_rivals"}
                \cup update_player_driving
      [] sys \in {"update_rival_visuals", "render_road"} ->
            {"update_input", "update_player_road_position",
             "update_road_curvature", "update_road_hills", "update_rivals",
             "check_passed_objects"}
                \cup update_player_driving

\* sys runs once per tick, after the systems it is ordered after; the tick
\* ends when every system of the schedule has run
Run(sys, systems) ==
    /\ ~panicked
    /\ sys \in systems
    /\ sys \notin ran
    /\ (After(sys) \cap systems) \subseteq ran
    /\ ran' = IF ran \cup {sys} = systems THEN {} ELSE ran \cup {sys}

---------------------------------------------------------------------------
(* test_curve_road *)

\* A clamp with no lower limit
clamp_upper_only(v, lo, hi) == IF v > hi THEN hi ELSE v

\* f32::clamp
clamp(v, lo, hi) == IF v < lo THEN lo ELSE IF v > hi THEN hi ELSE v

\* update_player_road_position: the racer travels advance_amount_z
\* (speed * TIME_STEP), then the lateral offset becomes road_x (the offset
\* moved by the turn rate and the road's pull, any value here) clamped to
\* [-500, 500].  The position stays within lim.travel.
UpdatePlayerRoadPosition(systems, lim, advance_amount_z, road_x) ==
    LET r == advance_z(advance_amount_z)
    IN  /\ Run("update_player_road_position", systems)
        /\ r.seg_idx * SEGMENT_LENGTH + r.seg_pos <= lim.travel
        /\ seg_idx' = r.seg_idx
        /\ seg_pos' = r.seg_pos
        /\ z_offset' = r.z_offset
        /\ panicked' = r.panicked
        /\ x_offset' = IF r.panicked THEN x_offset
                       ELSE clamp(road_x, -500 * XF, 500 * XF)
        /\ call' = [op |-> "advance_z", amount |-> advance_amount_z]
        /\ UNCHANGED gameVars
        /\ UNCHANGED <<draw_height, x_map, y_map, segs, y_advancement_map,
                       draw_buffer>>

\* segs after test_curve_road with the keys of `pressed` held
test_curve_road(pressed) ==
    LET curve_step(sg, who, d) ==
            [s \in DOMAIN sg |->
                IF s \in who THEN [sg[s] EXCEPT !.curve = @ + d] ELSE sg[s]]
        hill_step(sg, who, d) ==
            [s \in DOMAIN sg |->
                IF s \in who THEN [sg[s] EXCEPT !.hill = @ + d] ELSE sg[s]]
        s1 == IF "A" \in pressed THEN curve_step(segs, {0, 1}, -1) ELSE segs
        s2 == IF "D" \in pressed THEN curve_step(s1, {0, 1}, 1) ELSE s1
        s3 == IF "J" \in pressed THEN curve_step(s2, {1}, -1) ELSE s2
        s4 == IF "L" \in pressed THEN curve_step(s3, {1}, 1) ELSE s3
        s5 == IF "I" \in pressed THEN hill_step(s4, {0, 1}, -1) ELSE s4
        s6 == IF "K" \in pressed THEN hill_step(s5, {0, 1}, 1) ELSE s5
    IN  s6

\* The segments stay within the limits of a specification
WithinSegBounds(sg, lim) ==
    \A s \in DOMAIN sg :
        /\ sg[s].hill >= -lim.uphill
        /\ sg[s].hill <= lim.downhill
        /\ Abs(sg[s].curve) <= lim.curve

TestCurveRoad(systems, lim, pressed) ==
    /\ Run("test_curve_road", systems)
    /\ WithinSegBounds(test_curve_road(pressed), lim)
    /\ segs' = test_curve_road(pressed)
    /\ call' = [op |-> "test_curve_road"]
    /\ UNCHANGED gameVars
    /\ UNCHANGED <<draw_height, x_map, y_map, x_offset, z_offset, seg_idx,
                   seg_pos, y_advancement_map, draw_buffer, panicked>>

---------------------------------------------------------------------------
(* map_road_quadratic, update_road_curvature, update_road_hills *)

\* get_bounded_seg fails on an empty list: segs.len() - 1 overflows (a panic
\* with overflow checks) or wraps to usize::MAX, the clamp then keeps idx and
\* segs[idx] is out of bounds (a panic as well)
get_bounded_seg_panics(segments) == Cardinality(DOMAIN segments) = 0

\* get_bounded_seg wrapping around to the start of the list
get_bounded_seg_wrapping(segments, idx) ==
    segments[idx % Cardinality(DOMAIN segments)]

\* The segment get_bounded_seg returns on a list that is not empty
get_bounded_seg(segments, idx) ==
    LET len == Cardinality(DOMAIN segments)
        actual_idx == IF idx > len - 1 THEN len - 1 ELSE idx
    IN  segments[actual_idx]

\* One iteration of the loop of map_road_quadratic, at row i.  st holds the
\* loop's variables and the rows of out_map written so far; `field` is the
\* segment field seg_value_func reads.  Values are in units of half a
\* parameter step times a Z unit (X format for curves, Y format for hills),
\* in which parameter * coeff.x2 * delta_z is the integer below and
\* parameter * coeff.x is scaled by ZF.
map_row(st, i, coeff, field, segments) ==
    LET cur_z == z_map[i]
        delta_z == cur_z - st.last_z
        new_pos == st.seg_pos + delta_z
        crossed == new_pos > SEGMENT_LENGTH
        new_idx == IF crossed THEN st.seg_idx + 1 ELSE st.seg_idx
        new_seg == IF crossed THEN get_bounded_seg(segments, new_idx)
                   ELSE st.cur_seg
        parameter == new_seg[field]
        new_delta == st.delta_value + (parameter * coeff.x2) * delta_z
        new_value == st.cur_value + new_delta
    IN  [out_map |-> Append(st.out_map, new_value + parameter * coeff.x * ZF),
         cur_value |-> new_value,
         delta_value |-> new_delta,
         last_z |-> cur_z,
         seg_idx |-> new_idx,
         seg_pos |-> new_pos,
         cur_seg |-> new_seg]

\* The iterations lo..hi-1 of the loop, in order.  The range is split in
\* halves, and the first half is evaluated (its rows counted) before the
\* second starts, to keep TLC's evaluation shallow.
RECURSIVE map_rows(_, _, _, _, _, _)
map_rows(st, lo, hi, coeff, field, segments) ==
    IF lo >= hi THEN st
    ELSE IF hi = lo + 1 THEN map_row(st, lo, coeff, field, segments)
    ELSE LET mid == (lo + hi) \div 2
             first == map_rows(st, lo, mid, coeff, field, segments)
         IN  IF Len(first.out_map) = mid
             THEN map_rows(first, mid, hi, coeff, field, segments)
             ELSE first

\* map_road_quadratic fails in its first get_bounded_seg, before the loop
map_road_quadratic_panics(segments) == get_bounded_seg_panics(segments)

\* out_map after map_road_quadratic, as a table over the rows
map_road_quadratic(coeff, initial_value, field, segments, from_idx, from_pos) ==
    LET st == map_rows([out_map |-> <<>>,
                        cur_value |-> initial_value,
                        delta_value |-> 0,
                        last_z |-> z_map[0],
                        seg_idx |-> from_idx,
                        seg_pos |-> from_pos,
                        cur_seg |-> get_bounded_seg(segments, from_idx)],
                       0, ROAD_DISTANCE, coeff, field, segments)
    IN  [i \in 0..(ROAD_DISTANCE - 1) |-> st.out_map[i + 1]]

\* converge_x reaching zero at the last row of the table
converge_x_to_last_row(x_pos, road_map_idx) ==
    ScaleBy(x_pos, (ROAD_DISTANCE - 1) - road_map_idx, ROAD_DISTANCE - 1)

\* converge_x: x_pos * (1 - road_map_idx / ROAD_DISTANCE)
converge_x(x_pos, road_map_idx) ==
    ScaleBy(x_pos, ROAD_DISTANCE - road_map_idx, ROAD_DISTANCE)

\* update_road_curvature without the loop that adds converge_x
update_road_curvature_no_converge ==
    map_road_quadratic(CURVE_COEFF, (FIELD_WIDTH * XF) \div 2, "curve", segs,
                       seg_idx, seg_pos)

\* x_map after update_road_curvature
update_road_curvature ==
    LET out == map_road_quadratic(CURVE_COEFF, (FIELD_WIDTH * XF) \div 2,
                                  "curve", segs, seg_idx, seg_pos)
    IN  [i \in 0..(ROAD_DISTANCE - 1) |-> out[i] + converge_x(x_offset, i)]

UpdateRoadCurvature(systems) ==
    /\ Run("update_road_curvature", systems)
    /\ panicked' = map_road_quadratic_panics(segs)
    /\ x_map' = IF map_road_quadratic_panics(segs) THEN x_map
                ELSE update_road_curvature
    /\ call' = [op |-> "update_road_curvature"]
    /\ UNCHANGED gameVars
    /\ UNCHANGED <<draw_height, y_map, x_offset, z_offset, seg_idx, seg_pos,
                   segs, y_advancement_map, draw_buffer>>

\* The advancement without the clamp
advancement_unclamped(adv_map, map_idx) == adv_map[map_idx]

\* The advancement update_road_hills applies at depth row map_idx
advancement(adv_map, map_idx) ==
    IF adv_map[map_idx] > MIN_ADVANCEMENT THEN adv_map[map_idx]
    ELSE MIN_ADVANCEMENT

\* The iteration with the running index advanced before the row is written
hill_line_advance_first(st, cur_line, adv_map) ==
    LET next_idx == st.flt_map_idx
                      + advancement(adv_map, st.flt_map_idx \div YF)
        map_idx == next_idx \div YF
    IN  IF st.broken THEN st
        ELSE IF map_idx >= ROAD_DISTANCE
        THEN [st EXCEPT !.broken = TRUE, !.draw_height = cur_line]
        ELSE [st EXCEPT !.written = Append(@, map_idx),
                        !.flt_map_idx = next_idx]

\* One iteration of the scanline loop of update_road_hills, at cur_line.
\* st holds flt_map_idx, the entries of y_map written so far, whether the
\* loop has broken, and draw_height.
hill_line(st, cur_line, adv_map) ==
    LET map_idx == st.flt_map_idx \div YF
    IN  IF st.broken THEN st
        ELSE IF map_idx >= ROAD_DISTANCE
        THEN [st EXCEPT !.broken = TRUE, !.draw_height = cur_line]
        ELSE [st EXCEPT !.written = Append(@, map_idx),
                        !.flt_map_idx = @ + advancement(adv_map, map_idx)]

\* The iterations lo..hi-1 of the loop, in order, up to the break
RECURSIVE hill_lines(_, _, _, _)
hill_lines(st, lo, hi, adv_map) ==
    IF lo >= hi THEN st
    ELSE IF hi = lo + 1 THEN hill_line(st, lo, adv_map)
    ELSE LET mid == (lo + hi) \div 2
             first == hill_lines(st, lo, mid, adv_map)
         IN  IF first.broken THEN first
             ELSE hill_lines(first, mid, hi, adv_map)

\* update_road_hills without the fill of y_map[draw_height..]
update_road_hills_no_fill ==
    LET adv_map == map_road_quadratic(HILL_COEFF, YF, "hill", segs, seg_idx,
                                      seg_pos)
        st == hill_lines([flt_map_idx |-> 0, written |-> <<>>,
                          broken |-> FALSE,
                          draw_height |-> MAX_ROAD_DRAW_HEIGHT],
                         0, MAX_ROAD_DRAW_HEIGHT, adv_map)
    IN  [y_advancement_map |-> adv_map,
         draw_height |-> st.draw_height,
         y_map |-> [k \in 0..(MAX_ROAD_DRAW_HEIGHT - 1) |->
                       IF k < st.draw_height THEN st.written[k + 1]
                       ELSE y_map[k]]]

\* update_road_hills filling y_map[draw_height..] with 0
update_road_hills_fill_zero ==
    LET adv_map == map_road_quadratic(HILL_COEFF, YF, "hill", segs, seg_idx,
                                      seg_pos)
        st == hill_lines([flt_map_idx |-> 0, written |-> <<>>,
                          broken |-> FALSE,
                          draw_height |-> MAX_ROAD_DRAW_HEIGHT],
                         0, MAX_ROAD_DRAW_HEIGHT, adv_map)
    IN  [y_advancement_map |-> adv_map,
         draw_height |-> st.draw_height,
         y_map |-> [k \in 0..(MAX_ROAD_DRAW_HEIGHT - 1) |->
                       IF k < st.draw_height THEN st.written[k + 1]
                       ELSE 0]]

\* update_road_hills with the closure of update_road_curvature, |seg| seg.curve
update_road_hills_reads_curve ==
    LET adv_map == map_road_quadratic(HILL_COEFF, YF, "curve", segs, seg_idx,
                                      seg_pos)
        st == hill_lines([flt_map_idx |-> 0, written |-> <<>>,
                          broken |-> FALSE,
                          draw_height |-> MAX_ROAD_DRAW_HEIGHT],
                         0, MAX_ROAD_DRAW_HEIGHT, adv_map)
    IN  [y_advancement_map |-> adv_map,
         draw_height |-> st.draw_height,
         y_map |-> [k \in 0..(MAX_ROAD_DRAW_HEIGHT - 1) |->
                       IF k < st.draw_height THEN st.written[k + 1]
                       ELSE ROAD_DISTANCE]]

\* y_advancement_map, y_map and draw_height after update_road_hills
update_road_hills ==
    LET adv_map == map_road_quadratic(HILL_COEFF, YF, "hill", segs, seg_idx,
                                      seg_pos)
        st == hill_lines([flt_map_idx |-> 0, written |-> <<>>,
                          broken |-> FALSE,
                          draw_height |-> MAX_ROAD_DRAW_HEIGHT],
                         0, MAX_ROAD_DRAW_HEIGHT, adv_map)
    IN  [y_advancement_map |-> adv_map,
         draw_height |-> st.draw_height,
         y_map |-> [k \in 0..(MAX_ROAD_DRAW_HEIGHT - 1) |->
                       IF k < st.draw_height THEN st.written[k + 1]
                       ELSE ROAD_DISTANCE]]

UpdateRoadHills(systems) ==
    LET r == update_road_hills
    IN  /\ Run("update_road_hills", systems)
        /\ panicked' = map_road_quadratic_panics(segs)
        /\ IF map_road_quadratic_panics(segs)
           THEN UNCHANGED <<y_advancement_map, draw_height, y_map>>
           ELSE /\ y_advancement_map' = r.y_advancement_map
                /\ draw_height' = r.draw_height
                /\ y_map' = r.y_map
        /\ call' = [op |-> "update_road_hills"]
        /\ UNCHANGED gameVars
        /\ UNCHANGED <<x_map, x_offset, z_offset, seg_idx, seg_pos, segs,
                       draw_buffer>>

---------------------------------------------------------------------------
(* get_draw_params_on_road *)

Some(scale, x, y) == [some |-> TRUE, scale |-> scale, draw_pos |-> <<x, y>>]

\* The indices binary_search(target).unwrap_or_else(|x| x) can give on the
\* sorted table arr[0..len-1]: the index of a match (any one, when several
\* entries match), or else the insertion point
binary_search(arr, len, target) ==
    LET matches == {i \in 0..(len - 1) : arr[i] = target}
    IN  IF matches # {} THEN matches
        ELSE {Cardinality({i \in 0..(len - 1) : arr[i] < target})}

\* get_draw_params_on_road converging x_pos by the search result, the row
\* after the one that gives the scale
get_draw_params_on_road_next_row(x_pos, z_pos) ==
    LET for_row(map_idx) ==
            LET scale == scale_map[map_idx]
                for_line(result) ==
                    LET y_map_idx == IF result > 0 THEN result - 1 ELSE result
                    IN  IF y_map_idx > draw_height THEN None
                        ELSE Some(scale,
                                  x_map[map_idx] + converge_x(x_pos, map_idx + 1),
                                  y_map_idx)
            IN  {for_line(result) :
                    result \in binary_search(y_map, MAX_ROAD_DRAW_HEIGHT,
                                             map_idx)}
        for_search(search_result_idx) ==
            IF search_result_idx = 0 \/ search_result_idx > ROAD_DISTANCE
            THEN {None}
            ELSE for_row(search_result_idx - 1)
    IN  UNION {for_search(search_result_idx) :
                  search_result_idx \in binary_search(z_map, ROAD_DISTANCE,
                                                      z_pos)}

\* The results get_draw_params_on_road(x_pos, z_pos) can give
get_draw_params_on_road(x_pos, z_pos) ==
    LET for_row(map_idx) ==
            LET scale == scale_map[map_idx]
                for_line(result) ==
                    LET y_map_idx == IF result > 0 THEN result - 1 ELSE result
                    IN  IF y_map_idx > draw_height THEN None
                        ELSE Some(scale,
                                  x_map[map_idx] + converge_x(x_pos, map_idx),
                                  y_map_idx)
            IN  {for_line(result) :
                    result \in binary_search(y_map, MAX_ROAD_DRAW_HEIGHT,
                                             map_idx)}
        for_search(search_result_idx) ==
            IF search_result_idx = 0 \/ search_result_idx > ROAD_DISTANCE
            THEN {None}
            ELSE for_row(search_result_idx - 1)
    IN  UNION {for_search(search_result_idx) :
                  search_result_idx \in binary_search(z_map, ROAD_DISTANCE,
                                                      z_pos)}

\* update_rival_visuals places one object, at (x_pos, z_pos)
UpdateRivalVisuals(systems, x_pos, z_pos) ==
    /\ Run("update_rival_visuals", systems)
    /\ \E result \in get_draw_params_on_road(x_pos, z_pos) :
            call' = [op |-> "get_draw_params_on_road", x_pos |-> x_pos,
                     z_pos |-> z_pos, result |-> result]
    /\ UNCHANGED gameVars
    /\ UNCHANGED <<draw_height, x_map, y_map, x_offset, z_offset, seg_idx,
                   seg_pos, segs, y_advancement_map, draw_buffer, panicked>>

---------------------------------------------------------------------------
(* The road systems under the hill keys, with objects at every depth row *)

RoadSystems == {"test_curve_road", "update_road_curvature",
                "update_road_hills", "update_rival_visuals"}

HillKeys == {{}, {"I"}, {"K"}}

\* The depth rows objects are placed at: the nearest rows, a middle row and
\* the farthest rows
ObjectRows == {0, 1, 2, 50, ROAD_DISTANCE - 2, ROAD_DISTANCE - 1}

\* Object depths (Z format): the depth of each of these rows, depths between
\* rows, behind the camera, and beyond the farthest row
ObjectZ ==
    {z_map[r] : r \in ObjectRows}
        \cup {z_map[r] + 1 : r \in {0, 50, ROAD_DISTANCE - 2}}
        \cup {-ZF, 0, z_map[0] - 1, z_map[ROAD_DISTANCE - 1] + ZF}

\* Object lateral positions (X format)
ObjectX == {0, 40 * XF}

QueryLimits == [uphill |-> MaxUphillSteps, downhill |-> MaxDownhillSteps,
                curve |-> 0]

NextQuery ==
    \/ \E pressed \in HillKeys : TestCurveRoad(RoadSystems, QueryLimits, pressed)
    \/ UpdateRoadCurvature(RoadSystems)
    \/ UpdateRoadHills(RoadSystems)
    \/ \E x \in ObjectX, z \in ObjectZ : UpdateRivalVisuals(RoadSystems, x, z)

SpecQuery == InitRoad /\ [][NextQuery]_vars

---------------------------------------------------------------------------
(* render_road *)

\* A colour is a u32, written as its four bytes from the most significant:
\* 0xFFFF91FF is <<255, 255, 145, 255>>.  A ShiftableColor is a pair.
RoadColors ==
    [center_line |-> <<255, 255, 255, 255>>,
     offroad |-> <<(<<255, 255, 145, 255>>), (<<218, 218, 145, 255>>)>>,
     rumble_strip |-> <<(<<255, 255, 255, 255>>), (<<255, 0, 0, 255>>)>>,
     pavement |-> <<(<<48, 48, 48, 255>>), (<<51, 51, 51, 255>>)>>]

\* 0x00FF00FF, the colour of a segment boundary
SEG_BOUNDARY_COLOR == <<0, 255, 0, 255>>

\* from_current_into_big_endian on a little-endian machine: the u32 whose
\* bytes in memory are those of `color` from the most significant
from_current_into_big_endian(color) ==
    <<color[4], color[3], color[2], color[1]>>

\* A Z-format length in X format
ZToX(len) == len * (XF \div ZF)

\* The band a pixel is on with a band whose centre line keeps its tone
classify_fixed_center(distance_from_center, road_scale) ==
    LET road_width == ZToX(PAVEMENT_WIDTH * road_scale)
        center_line_width == ZToX(CENTER_LINE_WIDTH * road_scale)
        rumble_width == ZToX(RUMBLE_STRIP_WIDTH * road_scale)
    IN  IF distance_from_center <= center_line_width
        THEN <<RoadColors.center_line, RoadColors.center_line>>
        ELSE IF distance_from_center <= road_width
        THEN RoadColors.pavement
        ELSE IF distance_from_center <= road_width + rumble_width
        THEN RoadColors.rumble_strip
        ELSE RoadColors.offroad

\* The ShiftableColor of the part of the road a pixel is on, from its
\* distance to the centre of the road (X format) on a row of this scale
classify(distance_from_center, road_scale) ==
    LET road_width == ZToX(PAVEMENT_WIDTH * road_scale)
        center_line_width == ZToX(CENTER_LINE_WIDTH * road_scale)
        rumble_width == ZToX(RUMBLE_STRIP_WIDTH * road_scale)
    IN  IF distance_from_center <= center_line_width
        THEN <<RoadColors.center_line, RoadColors.pavement[2]>>
        ELSE IF distance_from_center <= road_width
        THEN RoadColors.pavement
        ELSE IF distance_from_center <= road_width + rumble_width
        THEN RoadColors.rumble_strip
        ELSE RoadColors.offroad

\* The pixels render_road writes to line cur_line of the buffer
render_line(cur_line) ==
    LET map_idx == y_map[(MAX_ROAD_DRAW_HEIGHT - 1) - cur_line]
        no_draw == map_idx >= ROAD_DISTANCE
        road_z == z_map[map_idx]
        road_scale == scale_map[map_idx]
        is_seg_boundary ==
            IF DEBUG_VIS_SEGMENTS /\ map_idx > 0
            THEN (road_z + seg_pos) \div SEGMENT_LENGTH
                    # (z_map[map_idx - 1] + seg_pos) \div SEGMENT_LENGTH
            ELSE FALSE
        num_color_switches == (road_z + z_offset) \div COLOR_SWITCH_Z_INTERVAL
        shift_color == num_color_switches % 2 # 0
        road_center == x_map[map_idx]
        color(x) ==
            LET shiftable == classify(Abs(x * XF - road_center), road_scale)
            IN  IF is_seg_boundary THEN SEG_BOUNDARY_COLOR
                ELSE IF shift_color THEN shiftable[2]
                ELSE shiftable[1]
    IN  IF no_draw
        THEN [x \in 0..(FIELD_WIDTH - 1) |-> <<0, 0, 0, 0>>]
        ELSE [x \in 0..(FIELD_WIDTH - 1) |->
                 from_current_into_big_endian(color(x))]

\* render_road leaving the loop at the first line it does not draw
render_road_break ==
    [cur_line \in 0..(MAX_ROAD_DRAW_HEIGHT - 1) |->
        IF y_map[(MAX_ROAD_DRAW_HEIGHT - 1) - cur_line] >= ROAD_DISTANCE
        THEN draw_buffer[cur_line]
        ELSE render_line(cur_line)]

\* draw_buffer after render_road: every line is written, from the bottom
render_road ==
    [cur_line \in 0..(MAX_ROAD_DRAW_HEIGHT - 1) |-> render_line(cur_line)]

RenderRoad(systems) ==
    /\ Run("render_road", systems)
    /\ draw_buffer' = render_road
    /\ call' = [op |-> "render_road", before |-> draw_buffer]
    /\ UNCHANGED gameVars
    /\ UNCHANGED <<draw_height, x_map, y_map, x_offset, z_offset, seg_idx,
                   seg_pos, segs, y_advancement_map, panicked>>

---------------------------------------------------------------------------
(* The road systems with the rasterizer, on a moving racer *)

RenderSystems == {"test_curve_road", "update_player_road_position",
                  "update_road_curvature", "update_road_hills",
                  "render_road"}

RenderLimits == [uphill |-> RenderUphillSteps, downhill |-> 0, curve |-> 0,
                 travel |-> RenderMaxTravel]

\* What the racer does in a tick: stand in the middle of the road, or
\* travel a quarter of a unit and move to the side
RenderMoves == {[amount |-> 0, road_x |-> 0],
                [amount |-> 250, road_x |-> -30 * XF]}

NextRender ==
    \/ \E pressed \in HillKeys :
            TestCurveRoad(RenderSystems, RenderLimits, pressed)
    \/ \E m \in RenderMoves :
            UpdatePlayerRoadPosition(RenderSystems, RenderLimits, m.amount,
                                     m.road_x)
    \/ UpdateRoadCurvature(RenderSystems)
    \/ UpdateRoadHills(RenderSystems)
    \/ RenderRoad(RenderSystems)

SpecRender == Init /\ [][NextRender]_vars

---------------------------------------------------------------------------
(* RoadDynamic::get_seg_curvature, and the projections on any segment list *)

\* get_seg_curvature answering with a straight road when there is no
\* segment to read
get_seg_curvature_or_straight(pos_offset) ==
    LET idx == seg_idx + (seg_pos + pos_offset) \div SEGMENT_LENGTH
    IN  IF get_bounded_seg_panics(segs) THEN [panic |-> FALSE, curve |-> 0]
        ELSE [panic |-> FALSE, curve |-> get_bounded_seg(segs, idx).curve]

\* get_seg_curvature(pos_offset), pos_offset >= 0 in Z format: the curve
\* returned, or the panic of get_bounded_seg
get_seg_curvature(pos_offset) ==
    LET idx == seg_idx + (seg_pos + pos_offset) \div SEGMENT_LENGTH
    IN  IF get_bounded_seg_panics(segs) THEN [panic |-> TRUE]
        ELSE [panic |-> FALSE, curve |-> get_bounded_seg(segs, idx).curve]

GetSegCurvature(pos_offset) ==
    /\ ~panicked
    /\ panicked' = get_seg_curvature(pos_offset).panic
    /\ call' = [op |-> "get_seg_curvature", pos_offset |-> pos_offset,
                result |-> get_seg_curvature(pos_offset)]
    /\ UNCHANGED gameVars
    /\ UNCHANGED <<draw_height, x_map, y_map, x_offset, z_offset, seg_idx,
                   seg_pos, segs, y_advancement_map, draw_buffer, ran>>

\* The most segments of a list
MaxSegments == 3

\* Segment lists: no segment; straight flat roads; roads whose segment s has
\* curve s + 1 (in steps of curve_amt); and the two-segment road with both
\* hills at 0.02 (60 steps of hill_amt)
SegmentLists ==
    {<<>>}
      \cup {[s \in 0..(n - 1) |-> [curve |-> 0, hill |-> 0]] :
               n \in 1..MaxSegments}
      \cup {[s \in 0..(n - 1) |-> [curve |-> s + 1, hill |-> 0]] :
               n \in 1..MaxSegments}
      \cup {[s \in 0..1 |-> [curve |-> 0, hill |-> (2 * HILL_DEN) \div 100]]}

\* Offsets within a segment (Z format)
SegPositions == {0, 7000, SEGMENT_LENGTH - 1}

\* Lateral offsets (X format), multiples of ROAD_DISTANCE: their convergence
\* term is exact at every row
LateralOffsets == {0, -33 * XF, 495 * XF}

\* Forward offsets get_seg_curvature is asked for (Z format)
PosOffsets == {0, 7500, SEGMENT_LENGTH, 3 * SEGMENT_LENGTH}

\* A road of any of the segment lists, at any of the positions
InitSegments ==
    /\ startup_game
    /\ x_map = [i \in 0..(ROAD_DISTANCE - 1) |-> (FIELD_WIDTH * XF) \div 2]
    /\ y_map = [k \in 0..(MAX_ROAD_DRAW_HEIGHT - 1) |-> 0]
    /\ draw_height = ROAD_DISTANCE
    /\ x_offset \in LateralOffsets
    /\ z_offset = 0
    /\ seg_idx \in 0..MaxSegIdx
    /\ seg_pos \in SegPositions
    /\ segs \in SegmentLists
    /\ HillScratchPadDefault
    /\ draw_buffer = <<>>
    /\ ran = {}
    /\ panicked = FALSE
    /\ call = [op |-> "startup_road"]

ProjectionSystems == {"update_road_curvature", "update_road_hills"}

NextSegments ==
    \/ \E pos_offset \in PosOffsets : GetSegCurvature(pos_offset)
    \/ UpdateRoadCurvature(ProjectionSystems)
    \/ UpdateRoadHills(ProjectionSystems)

SpecSegments == InitSegments /\ [][NextSegments]_vars

---------------------------------------------------------------------------
(* build_road_static, row by row, for any configuration *)

\* +infinity, the f32 quotient of a positive number by zero: above every
\* finite value of the model
F32_INFINITY == 2147483647

\* The f32 quotient a / b of Z-format numbers, a > 0, in Z format
f32_div(a, b) ==
    IF b = 0 THEN F32_INFINITY
    ELSE IF b = F32_INFINITY THEN 0
    ELSE IF b > 0 THEN RoundDiv(a * ZF, b)
    ELSE -RoundDiv(a * ZF, -b)

\* The loop body of build_road_static with screen_y growing with the row
build_road_static_row_downward(cfg, i) ==
    LET converge_y == cfg.field_height * ZF - cfg.converge_distance
        screen_y == cfg.field_height * ZF + i * ZF
        out_z == f32_div(cfg.camera_height, screen_y - converge_y)
    IN  [z |-> out_z, scale |-> f32_div(ZF, out_z)]

\* The loop body of build_road_static at row i: the entries written to
\* z_map and scale_map.  No test precedes the divisions.
build_road_static_row(cfg, i) ==
    LET converge_y == cfg.field_height * ZF - cfg.converge_distance
        screen_y == cfg.field_height * ZF - i * ZF
        out_z == f32_div(cfg.camera_height, screen_y - converge_y)
    IN  [z |-> out_z, scale |-> f32_div(ZF, out_z)]

\* The constants of the program
ProgramConfig ==
    [field_height |-> FIELD_HEIGHT, camera_height |-> CAMERA_HEIGHT,
     converge_distance |-> CONVERGE_DISTANCE, rows |-> ROAD_DISTANCE]

\* The rows of the small configurations
SmallRows == 5

\* The program's configuration; one whose converge distance exceeds the
\* field height; one whose row 3 is on the convergence line; and one whose
\* rows cross the line between rows 2 and 3
BuildConfigs ==
    {ProgramConfig,
     [ProgramConfig EXCEPT !.field_height = 100],
     [ProgramConfig EXCEPT !.converge_distance = 3 * ZF, !.rows = SmallRows],
     [ProgramConfig EXCEPT !.converge_distance = 5 * (ZF \div 2),
                           !.rows = SmallRows]}

\* startup_road has called build_road_static, which is about to fill the
\* tables; the road resources are inserted when it is done
InitBuild ==
    /\ startup_game
    /\ build_road_dynamic
    /\ HillScratchPadDefault
    /\ draw_buffer = <<>>
    /\ ran = {}
    /\ panicked = FALSE
    /\ \E cfg \in BuildConfigs :
          call = [op |-> "build_road_static", cfg |-> cfg, i |-> 0,
                  z_map |-> <<>>, scale_map |-> <<>>]

\* One iteration of the loop of build_road_static
BuildRoadStaticRow ==
    /\ call.op = "build_road_static"
    /\ call.i < call.cfg.rows
    /\ LET row == build_road_static_row(call.cfg, call.i)
       IN  call' = [call EXCEPT !.i = @ + 1,
                                !.z_map = Append(@, row.z),
                                !.scale_map = Append(@, row.scale)]
    /\ UNCHANGED gameVars
    /\ UNCHANGED <<draw_height, x_map, y_map, x_offset, z_offset, seg_idx,
                   seg_pos, segs, y_advancement_map, draw_buffer, ran,
                   panicked>>

\* build_road_static returns and startup_road inserts the resources
StartupRoad ==
    /\ call.op = "build_road_static"
    /\ call.i = call.cfg.rows
    /\ call' = [op |-> "startup_road", cfg |-> call.cfg,
                z_map |-> call.z_map, scale_map |-> call.scale_map]
    /\ UNCHANGED gameVars
    /\ UNCHANGED <<draw_height, x_map, y_map, x_offset, z_offset, seg_idx,
                   seg_pos, segs, y_advancement_map, draw_buffer, ran,
                   panicked>>

NextBuild == BuildRoadStaticRow \/ StartupRoad

SpecBuild == InitBuild /\ [][NextBuild]_vars

---------------------------------------------------------------------------
(* The whole road schedule of a tick: position, projection, query, render *)

ScheduleSystems == {"test_curve_road", "update_player_road_position",
                    "update_road_curvature", "update_road_hills",
                    "update_rival_visuals", "render_road"}

\* A flat, straight road, travelled as under the rasterizer
ScheduleLimits == [uphill |-> 0, downhill |-> 0, curve |-> 0,
                   travel |-> RenderMaxTravel]

NextSchedule ==
    \/ TestCurveRoad(ScheduleSystems, ScheduleLimits, {})
    \/ \E m \in RenderMoves :
            UpdatePlayerRoadPosition(ScheduleSystems, ScheduleLimits,
                                     m.amount, m.road_x)
    \/ UpdateRoadCurvature(ScheduleSystems)
    \/ UpdateRoadHills(ScheduleSystems)
    \/ \E x \in ObjectX :
            UpdateRivalVisuals(ScheduleSystems, x, z_map[50] + 1)
    \/ RenderRoad(ScheduleSystems)

SpecSchedule == InitRoad /\ [][NextSchedule]_vars

---------------------------------------------------------------------------
(* The player: speed, steering, crash and slide (src/src/player.rs) *)

\* Speeds are held in units of 1/SF: every drag and acceleration of the
\* program, over one tick, is a whole number of them
SF == TICKS_PER_SECOND * 100

RACER_MAX_SPEED == (1043 * SF) \div 100
MAX_TURN_RATE == 400

PLAYER_MIN_SPEED == (14 * SF) \div 10
PLAYER_MAX_NORMAL_SPEED == 9 * SF
PLAYER_MAX_TURBO_SPEED == RACER_MAX_SPEED

\* Accelerations and drags, in speed units per second
PLAYER_SPEED_MIN_ACCEL == (4 * SF) \div 10
PLAYER_SPEED_MAX_ACCEL == 3 * SF
PLAYER_SPEED_TURBO_ACCEL == (75 * SF) \div 100
PLAYER_COAST_DRAG == (75 * SF) \div 100
PLAYER_BRAKE_DRAG == (36 * SF) \div 10
PLAYER_OFFROAD_DRAG == (18 * SF) \div 10
PLAYER_CRASH_DRAG == 3 * SF

PLAYER_TURN_ACCEL == 1200
PLAYER_TURN_FALLOFF == 1800
PLAYER_CRASH_RESET_SPEED == 300
PLAYER_SLIDE_STRENGTH == 300

\* Timers count ticks: a timer ticked by TIME_STEP finishes on the tick its
\* elapsed time reaches its duration.  PLAYER_SLIDE_DURATION is 2/3 s and
\* the pre-reset timer of a crash 1 s.
PLAYER_SLIDE_DURATION == (2 * TICKS_PER_SECOND) \div 3
PRE_RESET_DURATION == TICKS_PER_SECOND

\* Timer::new, not repeating
Timer(duration) == [elapsed |-> 0, duration |-> duration]

\* A tick that never reports the timer finished
tick_never_finishing(timer) ==
    [timer |-> IF timer.elapsed >= timer.duration THEN timer
               ELSE [timer EXCEPT !.elapsed = @ + 1],
     just_finished |-> FALSE]

\* Timer::tick by TIME_STEP, and just_finished after it: a finished timer
\* stays as it is
tick(timer) ==
    IF timer.elapsed >= timer.duration
    THEN [timer |-> timer, just_finished |-> FALSE]
    ELSE [timer |-> [timer EXCEPT !.elapsed = @ + 1],
          just_finished |-> timer.elapsed + 1 >= timer.duration]

\* Player::is_crashing
is_crashing(control_loss) == control_loss.some /\ control_loss.kind = "Crash"

\* Player::crash starting a new crash over an existing one
crash_overriding(control_loss) ==
    [some |-> TRUE, kind |-> "Crash", resetting |-> FALSE,
     pre_reset_timer |-> Timer(PRE_RESET_DURATION),
     sprite_cycle_idx |-> 0, sprite_cycle_timer |-> None]

\* Player::crash: an existing crash is not overridden
crash(control_loss) ==
    IF is_crashing(control_loss) THEN control_loss
    ELSE [some |-> TRUE, kind |-> "Crash", resetting |-> FALSE,
          pre_reset_timer |-> Timer(PRE_RESET_DURATION),
          sprite_cycle_idx |-> 0, sprite_cycle_timer |-> None]

\* Player::slide: slides do not override a crash
slide(control_loss, direction) ==
    IF is_crashing(control_loss) THEN control_loss
    ELSE [some |-> TRUE, kind |-> "Slide", direction |-> direction,
          timer |-> Timer(PLAYER_SLIDE_DURATION)]

\* A reset that leaves the turn buffer as it is
reset_turn_buffer_keeping == player.turn_buffer

\* Player::reset_turn_buffer
reset_turn_buffer ==
    [b \in 0..(TURN_BUFFER_SIZE - 1) |-> [left |-> FALSE, right |-> FALSE]]

\* is_offroad counting the outer edge of the rumble strip as off the road
is_offroad_from_edge ==
    Abs(x_offset) >= (PAVEMENT_WIDTH + RUMBLE_STRIP_WIDTH) * ZToX(scale_map[0])

\* is_offroad
is_offroad ==
    Abs(x_offset) > (PAVEMENT_WIDTH + RUMBLE_STRIP_WIDTH) * ZToX(scale_map[0])

\* update_player_turning: the racer's turn rate and the Player after it,
\* with the keys of input held
update_player_turning(input) ==
    LET next_turn == player.turn_buffer[0]
        buffer == [b \in 0..(TURN_BUFFER_SIZE - 1) |->
                      IF b < TURN_BUFFER_SIZE - 1
                      THEN player.turn_buffer[b + 1]
                      ELSE [left |-> input.left, right |-> input.right]]
        turn_accel == PLAYER_TURN_ACCEL \div TICKS_PER_SECOND
        turn_falloff == PLAYER_TURN_FALLOFF \div TICKS_PER_SECOND
        max(a, b) == IF a > b THEN a ELSE b
        min(a, b) == IF a < b THEN a ELSE b
        t0 == racer.turn_rate
        t1 == IF next_turn.left THEN max(-MAX_TURN_RATE, t0 - turn_accel)
              ELSE IF t0 < 0 THEN min(0, t0 + turn_falloff)
              ELSE t0
        t2 == IF next_turn.right THEN min(MAX_TURN_RATE, t1 + turn_accel)
              ELSE IF t1 > 0 THEN max(0, t1 - turn_falloff)
              ELSE t1
        loss == player.control_loss
    IN  IF loss.some /\ loss.kind = "Slide"
        THEN LET ticked == tick(loss.timer)
             IN  IF ticked.just_finished
                 THEN [turn_rate |-> 0,
                       player |-> [turn_buffer |-> reset_turn_buffer,
                                   control_loss |-> None]]
                 ELSE [turn_rate |-> IF loss.direction = "Left"
                                     THEN PLAYER_SLIDE_STRENGTH
                                     ELSE -PLAYER_SLIDE_STRENGTH,
                       player |-> [turn_buffer |-> buffer,
                                   control_loss |->
                                       [loss EXCEPT !.timer = ticked.timer]]]
        ELSE IF is_crashing(loss)
        THEN [turn_rate |-> 0,
              player |-> [turn_buffer |-> buffer, control_loss |-> loss]]
        ELSE [turn_rate |-> t2,
              player |-> [turn_buffer |-> buffer, control_loss |-> loss]]

UpdatePlayerTurning(systems, input) ==
    /\ Run("update_player_turning", systems)
    /\ racer' = [racer EXCEPT !.turn_rate = update_player_turning(input).turn_rate]
    /\ player' = update_player_turning(input).player
    /\ call' = [op |-> "update_player_turning", input |-> input,
                next_turn |-> player.turn_buffer[0]]
    /\ sampled' = IF player.control_loss.some /\ ~player'.control_loss.some
                  THEN <<>>
                  ELSE LET all == Append(sampled, input)
                       IN  IF Len(all) > TURN_BUFFER_SIZE THEN Tail(all)
                           ELSE all
    /\ UNCHANGED <<input_state, press_state, state, objects>>
    /\ UNCHANGED <<draw_height, x_map, y_map, x_offset, z_offset, seg_idx,
                   seg_pos, segs, y_advancement_map, draw_buffer, panicked>>

\* update_player_speed: the racer's speed after it, with the keys of input
\* held
update_player_speed(input) ==
    LET max(a, b) == IF a > b THEN a ELSE b
        min(a, b) == IF a < b THEN a ELSE b
        is_braking == input.brake
        is_accelerating == input.accel
        is_turboing == input.turbo /\ racer.speed >= PLAYER_MAX_NORMAL_SPEED
        crashing == is_crashing(player.control_loss)
        to_normal_cap ==
            (racer.speed - PLAYER_MAX_NORMAL_SPEED) * TICKS_PER_SECOND
        accel ==
            PLAYER_SPEED_MIN_ACCEL
              + max(RoundDiv((PLAYER_SPEED_MAX_ACCEL - PLAYER_SPEED_MIN_ACCEL)
                               * (PLAYER_MAX_NORMAL_SPEED - racer.speed),
                             PLAYER_MAX_NORMAL_SPEED),
                    0)
        accel_cap ==
            max((PLAYER_MAX_NORMAL_SPEED - racer.speed) * TICKS_PER_SECOND, 0)
        speed_change ==
            IF player.control_loss.some
            THEN -(IF crashing THEN PLAYER_CRASH_DRAG ELSE PLAYER_COAST_DRAG)
            ELSE IF is_braking THEN -PLAYER_BRAKE_DRAG
            ELSE IF is_turboing THEN PLAYER_SPEED_TURBO_ACCEL
            ELSE IF racer.speed > PLAYER_MAX_NORMAL_SPEED
            THEN -min(PLAYER_COAST_DRAG * 2, to_normal_cap)
            ELSE IF is_accelerating THEN min(accel, accel_cap)
            ELSE -PLAYER_COAST_DRAG
        offroad_change == IF is_offroad THEN -PLAYER_OFFROAD_DRAG ELSE 0
    IN  clamp(racer.speed
                + RoundDiv(speed_change + offroad_change, TICKS_PER_SECOND),
              IF crashing THEN 0 ELSE PLAYER_MIN_SPEED,
              PLAYER_MAX_TURBO_SPEED)

UpdatePlayerSpeed(systems, input) ==
    /\ Run("update_player_speed", systems)
    /\ racer' = [racer EXCEPT !.speed = update_player_speed(input)]
    /\ call' = [op |-> "update_player_speed", input |-> input,
                before |-> racer.speed,
                crashing |-> is_crashing(player.control_loss)]
    /\ UNCHANGED <<player, input_state, press_state, state, sampled, objects>>
    /\ UNCHANGED <<draw_height, x_map, y_map, x_offset, z_offset, seg_idx,
                   seg_pos, segs, y_advancement_map, draw_buffer, panicked>>

\* PlayerCrash::next_sprite_cycle_time, in ticks
next_sprite_cycle_time(speed) ==
    IF speed > 3 * SF THEN 1
    ELSE IF speed > (12 * SF) \div 10 THEN 2
    ELSE 4

\* update_player_crash: the control loss, the speed, the lateral offset and
\* the racer's visibility after it
update_player_crash ==
    LET crashed == player.control_loss
        same == [player |-> player, speed |-> racer.speed,
                 x_offset |-> x_offset, is_visible |-> racer.is_visible]
    IN  IF ~is_crashing(crashed) THEN same
        ELSE IF crashed.resetting
        THEN IF x_offset <= (PLAYER_CRASH_RESET_SPEED * XF) \div TICKS_PER_SECOND
             THEN [player |-> [turn_buffer |-> reset_turn_buffer,
                               control_loss |-> None],
                   speed |-> PLAYER_MIN_SPEED,
                   x_offset |-> 0,
                   is_visible |-> TRUE]
             ELSE [same EXCEPT
                     !.x_offset = @ - (PLAYER_CRASH_RESET_SPEED * XF)
                                          \div TICKS_PER_SECOND,
                     !.is_visible = FALSE]
        ELSE IF racer.speed <= 0
        THEN LET ticked == tick(crashed.pre_reset_timer)
             IN  [same EXCEPT !.player.control_loss =
                     [crashed EXCEPT
                        !.sprite_cycle_idx = 2,
                        !.pre_reset_timer = ticked.timer,
                        !.resetting = ticked.just_finished]]
        ELSE LET next_cycle_time == next_sprite_cycle_time(racer.speed)
                 cycle_timer == IF crashed.sprite_cycle_timer.some
                                THEN crashed.sprite_cycle_timer.timer
                                ELSE Timer(next_cycle_time)
                 ticked == tick(cycle_timer)
             IN  [same EXCEPT !.player.control_loss =
                     IF ticked.just_finished
                     THEN [crashed EXCEPT
                             !.sprite_cycle_idx = (@ + 1) % 4,
                             !.sprite_cycle_timer =
                                 [some |-> TRUE,
                                  timer |-> Timer(next_cycle_time)]]
                     ELSE [crashed EXCEPT
                             !.sprite_cycle_timer =
                                 [some |-> TRUE, timer |-> ticked.timer]]]

UpdatePlayerCrash(systems) ==
    /\ Run("update_player_crash", systems)
    /\ player' = update_player_crash.player
    /\ racer' = [racer EXCEPT !.speed = update_player_crash.speed,
                              !.is_visible = update_player_crash.is_visible]
    /\ x_offset' = update_player_crash.x_offset
    /\ call' = [op |-> "update_player_crash",
                before |-> player.control_loss]
    /\ sampled' = IF player.control_loss.some /\ ~player'.control_loss.some
                  THEN <<>>
                  ELSE sampled
    /\ UNCHANGED <<input_state, press_state, state, objects>>
    /\ UNCHANGED <<draw_height, x_map, y_map, z_offset, seg_idx, seg_pos,
                   segs, y_advancement_map, draw_buffer, panicked>>

\* check_passed_objects: the collision actions of the objects passed in the
\* tick and found colliding, applied to the player in turn
check_passed_objects(actions) ==
    LET RECURSIVE apply(_, _)
        apply(control_loss, n) ==
            IF n > Len(actions) THEN control_loss
            ELSE apply(IF actions[n] = "CrashPlayer"
                       THEN crash(control_loss)
                       ELSE slide(control_loss, actions[n]),
                       n + 1)
    IN  apply(player.control_loss, 1)

CheckPassedObjects(systems, actions) ==
    /\ Run("check_passed_objects", systems)
    /\ player' = [player EXCEPT !.control_loss = check_passed_objects(actions)]
    /\ call' = [op |-> "check_passed_objects", actions |-> actions]
    /\ UNCHANGED <<racer, input_state, press_state, state, sampled, objects>>
    /\ UNCHANGED <<draw_height, x_map, y_map, x_offset, z_offset, seg_idx,
                   seg_pos, segs, y_advancement_map, draw_buffer, panicked>>

\* The distance update_player_road_position passes to advance_z:
\* racer.speed * TIME_STEP, in Z format
travel_amount == RoundDiv(racer.speed * ZF, SF * TICKS_PER_SECOND)

\* The lateral position update_player_road_position clamps: the offset
\* moved by the turn rate (against it in a slide) and by the road's pull
road_x(pull) ==
    LET is_sliding == player.control_loss.some
                        /\ player.control_loss.kind = "Slide"
        turn_rate == IF is_sliding THEN -racer.turn_rate ELSE racer.turn_rate
    IN  x_offset - (turn_rate * XF) \div TICKS_PER_SECOND + pull

---------------------------------------------------------------------------
(* The player's systems over a few ticks, from the speeds of play *)

PlayerSystems == {"update_player_turning", "update_player_speed",
                  "update_player_crash", "update_player_road_position",
                  "check_passed_objects"}

\* The distance travelled in this specification, Z format
PlayerMaxTravel == 400

PlayerLimits == [travel |-> PlayerMaxTravel]

\* Speeds the game reaches: 0 at startup and at the end of a crash, the
\* least speed of play, the normal top speed (where the acceleration cap
\* stops it), a turbo speed one tick below the top, and the top speed
PlayerSpeeds == {0, PLAYER_MIN_SPEED, PLAYER_MAX_NORMAL_SPEED,
                 RACER_MAX_SPEED - PLAYER_SPEED_TURBO_ACCEL \div TICKS_PER_SECOND,
                 RACER_MAX_SPEED}

\* The keys update_player_speed reads: none, all of them (the brake wins),
\* and the accelerator with the turbo (which of the two acts is decided by
\* the speed)
SpeedInputs ==
    {[brake |-> FALSE, accel |-> FALSE, turbo |-> FALSE],
     [brake |-> TRUE, accel |-> TRUE, turbo |-> TRUE],
     [brake |-> FALSE, accel |-> TRUE, turbo |-> TRUE]}

\* The keys update_player_turning reads
TurnInputs == {[left |-> FALSE, right |-> FALSE]}

\* The collisions of a tick
Collisions == {<<>>, <<"CrashPlayer">>, <<"Left">>, <<"Right">>}

\* The road's pull over a tick (X format): none on the straight road
Pulls == {0}

\* Lateral offsets (X format): the centre of the road, and off the road
PlayerOffsets == {0, 250 * XF}

\* The player at any of the speeds, on the road as built
InitPlayer ==
    /\ x_map = [i \in 0..(ROAD_DISTANCE - 1) |-> (FIELD_WIDTH * XF) \div 2]
    /\ y_map = [k \in 0..(MAX_ROAD_DRAW_HEIGHT - 1) |-> 0]
    /\ draw_height = ROAD_DISTANCE
    /\ x_offset \in PlayerOffsets
    /\ z_offset = 0
    /\ seg_idx = 0
    /\ seg_pos = 0
    /\ segs = [s \in 0..1 |-> [curve |-> 0, hill |-> 0]]
    /\ HillScratchPadDefault
    /\ draw_buffer = <<>>
    /\ ran = {}
    /\ panicked = FALSE
    /\ call = [op |-> "startup_player"]
    /\ racer \in [speed : PlayerSpeeds, turn_rate : {0}, is_visible : {TRUE}]
    /\ player = [turn_buffer |-> reset_turn_buffer, control_loss |-> None]
    /\ startup_joyride
    /\ startup_road_objects
    /\ state = FixedFramerateState_new(MainFramerate)
    /\ sampled = <<>>

NextPlayer ==
    \/ \E input \in TurnInputs : UpdatePlayerTurning(PlayerSystems, input)
    \/ \E input \in SpeedInputs : UpdatePlayerSpeed(PlayerSystems, input)
    \/ UpdatePlayerCrash(PlayerSystems)
    \/ \E pull \in Pulls :
            UpdatePlayerRoadPosition(PlayerSystems, PlayerLimits,
                                     travel_amount, road_x(pull))
    \/ \E actions \in Collisions : CheckPassedObjects(PlayerSystems, actions)

SpecPlayer == InitPlayer /\ [][NextPlayer]_vars

---------------------------------------------------------------------------
(* The keys: latches set every frame, debounced every fixed step
   (src/src/joyride.rs) *)

\* JoyrideInputState
JoyrideInputState == {"JustPressed", "Pressed", "JustReleased", "Released"}

\* JoyrideInputState::is_pressed
is_pressed(key_state) == key_state = "JustPressed" \/ key_state = "Pressed"

\* update_instant_input storing what is pressed now, earlier presses dropped
update_instant_input_overwrite(pressed) ==
    [k \in Keys |-> k \in pressed]

\* press_state after update_instant_input, with the keys of pressed down
update_instant_input(pressed) ==
    [k \in Keys |-> IF k \in pressed THEN TRUE ELSE press_state[k]]

\* update_input_state keeping JustPressed while the latch is set
update_input_state_repeat(key_state, latch) ==
    [input_state |->
        IF latch
        THEN CASE key_state \in {"Released", "JustReleased"} -> "JustPressed"
               [] key_state = "JustPressed" -> "JustPressed"
               [] key_state = "Pressed" -> "Pressed"
        ELSE CASE key_state \in {"Pressed", "JustPressed"} -> "JustReleased"
               [] key_state = "JustReleased" -> "Released"
               [] key_state = "Released" -> "Released",
     press_state |-> FALSE]

\* update_input_state: the state of a key and its latch after it
update_input_state(key_state, latch) ==
    [input_state |->
        IF latch
        THEN CASE key_state \in {"Released", "JustReleased"} -> "JustPressed"
               [] key_state = "JustPressed" -> "Pressed"
               [] key_state = "Pressed" -> "Pressed"
        ELSE CASE key_state \in {"Pressed", "JustPressed"} -> "JustReleased"
               [] key_state = "JustReleased" -> "Released"
               [] key_state = "Released" -> "Released",
     press_state |-> FALSE]

\* The keys seen pressed by update_instant_input since the last
\* update_fixedframe_input, as recorded with the call
observed_presses ==
    IF call.op = "update_instant_input" THEN call.observed ELSE {}

\* update_instant_input, once per frame
UpdateInstantInput(pressed) ==
    /\ press_state' = update_instant_input(pressed)
    /\ ran' = {"update_instant_input"}
    /\ call' = [op |-> "update_instant_input", pressed |-> pressed,
                observed |-> observed_presses \cup pressed]
    /\ UNCHANGED <<racer, player, input_state, state, sampled, objects>>
    /\ UNCHANGED <<draw_height, x_map, y_map, x_offset, z_offset, seg_idx,
                   seg_pos, segs, y_advancement_map, draw_buffer, panicked>>

\* update_fixedframe_input, after update_instant_input, as many times in a
\* frame as the fixed timestep asks
UpdateFixedframeInput ==
    /\ "update_instant_input" \in ran
    /\ input_state' = [k \in Keys |->
            update_input_state(input_state[k], press_state[k]).input_state]
    /\ press_state' = [k \in Keys |->
            update_input_state(input_state[k], press_state[k]).press_state]
    /\ call' = [op |-> "update_fixedframe_input",
                observed |-> observed_presses,
                last_pressed |-> IF call.op = "update_instant_input"
                                 THEN call.pressed ELSE {},
                before |-> input_state]
    /\ UNCHANGED <<racer, player, state, ran, sampled, objects>>
    /\ UNCHANGED <<draw_height, x_map, y_map, x_offset, z_offset, seg_idx,
                   seg_pos, segs, y_advancement_map, draw_buffer, panicked>>

\* The keys held down in a frame: any of them
PressedKeys == SUBSET Keys

NextInput ==
    \/ \E pressed \in PressedKeys : UpdateInstantInput(pressed)
    \/ UpdateFixedframeInput

SpecInput == InitRoad /\ [][NextInput]_vars

---------------------------------------------------------------------------
(* The run criteria of the top-level schedule (src/src/fixed_framerate.rs) *)

\* The run cap reached only when the runs exceed it
hit_run_cap_late(st) ==
    IF st.framerate.max_runs_per_step.some
    THEN st.num_updates > st.framerate.max_runs_per_step.value
    ELSE FALSE

\* hit_run_cap: the runs since the last No have reached the cap, if any
hit_run_cap(st) ==
    IF st.framerate.max_runs_per_step.some
    THEN st.num_updates >= st.framerate.max_runs_per_step.value
    ELSE FALSE

\* The criteria keeping the surplus time when the cap is hit
run_criteria_keeps_time(st, elapsed_secs) ==
    LET accum == st.accum_seconds + elapsed_secs
        step_accumulated == accum >= st.framerate.fixed_step
    IN  IF ~step_accumulated \/ hit_run_cap(st)
        THEN [state |-> [st EXCEPT !.accum_seconds = accum,
                                   !.num_updates = 0],
              result |-> "No"]
        ELSE [state |-> [st EXCEPT
                            !.accum_seconds = accum - st.framerate.fixed_step,
                            !.num_updates = @ + 1],
              result |-> "YesAndCheckAgain"]

\* One call of the closure of create_fixed_framerate_run_criteria,
\* elapsed_secs after the call before: the state after it and its answer
run_criteria(st, elapsed_secs) ==
    LET accum == st.accum_seconds + elapsed_secs
        step_accumulated == accum >= st.framerate.fixed_step
    IN  IF ~step_accumulated \/ hit_run_cap(st)
        THEN [state |-> [st EXCEPT
                            !.accum_seconds =
                                IF step_accumulated
                                     /\ st.framerate.drop_time_after_max_runs
                                THEN 0 ELSE accum,
                            !.num_updates = 0],
              result |-> "No"]
        ELSE [state |-> [st EXCEPT
                            !.accum_seconds = accum - st.framerate.fixed_step,
                            !.num_updates = @ + 1],
              result |-> "YesAndCheckAgain"]

\* The time accumulated is kept below this many steps
MaxAccumSteps == 4

\* The schedule is run at most this many times in a row
MaxRunsInARow == 4

\* The criteria is asked, elapsed_secs after it was asked last.  The call
\* records the answers of YesAndCheckAgain in a row up to this one.
RunCriteria(elapsed_secs) ==
    LET r == run_criteria(state, elapsed_secs)
        in_a_row == IF r.result = "No" THEN 0
                    ELSE IF call.op = "run_criteria" THEN call.in_a_row + 1
                    ELSE 1
    IN  /\ r.state.accum_seconds < MaxAccumSteps * state.framerate.fixed_step
        /\ in_a_row <= MaxRunsInARow
        /\ state' = r.state
        /\ call' = [op |-> "run_criteria", elapsed_secs |-> elapsed_secs,
                    before |-> state, result |-> r.result,
                    in_a_row |-> in_a_row]
        /\ UNCHANGED <<racer, player, input_state, press_state, ran, sampled, objects>>
        /\ UNCHANGED <<draw_height, x_map, y_map, x_offset, z_offset,
                       seg_idx, seg_pos, segs, y_advancement_map,
                       draw_buffer, panicked>>

\* Times between two calls: none, parts of a step, a step, several steps
ElapsedTimes == {0, (3 * TIME_STEP) \div 10, TIME_STEP,
                 (17 * TIME_STEP) \div 10, (5 * TIME_STEP) \div 2}

\* The configurations: the one of main, and those with no cap, a cap of 2,
\* and the surplus kept
Framerates ==
    {[fixed_step |-> TIME_STEP, drop_time_after_max_runs |-> drop,
      max_runs_per_step |-> cap] :
        drop \in BOOLEAN,
        cap \in {None, [some |-> TRUE, value |-> 1],
                 [some |-> TRUE, value |-> 2]}}

InitFixedStep ==
    /\ build_road_dynamic
    /\ HillScratchPadDefault
    /\ draw_buffer = <<>>
    /\ ran = {}
    /\ panicked = FALSE
    /\ call = [op |-> "create_fixed_framerate_run_criteria"]
    /\ startup_player
    /\ startup_joyride
    /\ startup_road_objects
    /\ \E framerate \in Framerates : state = FixedFramerateState_new(framerate)

NextFixedStep == \E elapsed_secs \in ElapsedTimes : RunCriteria(elapsed_secs)

SpecFixedStep == InitFixedStep /\ [][NextFixedStep]_vars

---------------------------------------------------------------------------
(* reposition_skybox (src/src/skybox.rs) *)

\* The unsigned subtraction road_draw_height - 1 of reposition_skybox
\* underflows
reposition_skybox_underflows == draw_height - 1 < 0

---------------------------------------------------------------------------
(* Claims about advance_z *)

AbsolutePosition(idx, pos) == idx * SEGMENT_LENGTH + pos

\* C5: every advance_z(delta) with delta >= 0 moves the absolute position
\* seg_idx * SEGMENT_LENGTH + seg_pos forward by exactly delta and leaves
\* 0 <= seg_pos < SEGMENT_LENGTH.
C5_ForwardOnlyAdvance ==
    [][(call'.op = "advance_z" /\ call'.amount >= 0)
        => /\ AbsolutePosition(seg_idx', seg_pos')
                = AbsolutePosition(seg_idx, seg_pos) + call'.amount
           /\ 0 <= seg_pos' /\ seg_pos' < SEGMENT_LENGTH
           /\ ~panicked']_vars

\* An advance over several segments that landed exactly on a boundary
C5_Witness ==
    /\ call.op = "advance_z"
    /\ call.amount > 2 * SEGMENT_LENGTH
    /\ seg_idx >= 3
    /\ seg_pos = 0

\* C6: advance_z with a negative distance fails its assertion and leaves
\* seg_idx, seg_pos and z_offset as they were.
C6_NegativeAdvanceFails ==
    [][(call'.op = "advance_z" /\ call'.amount < 0)
        => /\ panicked'
           /\ seg_idx' = seg_idx
           /\ seg_pos' = seg_pos
           /\ z_offset' = z_offset]_vars

\* A negative advance from a position inside a later segment
C6_Witness ==
    /\ panicked
    /\ call.op = "advance_z"
    /\ call.amount < 0
    /\ seg_idx > 0
    /\ seg_pos > 0
    /\ z_offset > 0

---------------------------------------------------------------------------
(* Claims about get_draw_params_on_road *)

IsQuery == call.op = "get_draw_params_on_road"

Rows == 0..(ROAD_DISTANCE - 1)

\* The row whose depth interval [z_map[r], z_map[r+1]) holds z, for
\* z >= z_map[0]
EnclosingRow(z) == Cardinality({i \in Rows : z_map[i] <= z}) - 1

\* The track is flat and straight and the tables were projected from it
FlatStraightTrack ==
    /\ \A s \in DOMAIN segs : segs[s].curve = 0 /\ segs[s].hill = 0
    /\ draw_height = ROAD_DISTANCE
    /\ \A k \in Rows : y_map[k] = k

\* The scanlines ran out before the depth table did (an uphill), and the
\* last drawn scanline shows this depth row
CrestRow == y_map[MAX_ROAD_DRAW_HEIGHT - 1]
BehindCrest(row) ==
    /\ draw_height = MAX_ROAD_DRAW_HEIGHT
    /\ row > CrestRow

\* C1: a query at exactly the depth of row r returns Some with the scale of
\* row r.
C1_ExactDepthGivesRowScale ==
    IsQuery =>
        \A r \in Rows :
            call.z_pos = z_map[r] =>
                /\ call.result.some
                /\ call.result.scale = scale_map[r]

\* C2: a query at or beyond the farthest depth, or at or behind the camera
\* (z <= 0), returns None.
C2_OutOfRangeIsNone ==
    (IsQuery /\ (call.z_pos >= z_map[ROAD_DISTANCE - 1] \/ call.z_pos <= 0))
        => ~call.result.some

\* C3: on a flat, straight track a query at (0, z_map[r]) returns the
\* scanline that maps to row r.
C3_FlatRoundTrip ==
    (IsQuery /\ FlatStraightTrack /\ call.x_pos = 0) =>
        \A r \in Rows :
            call.z_pos = z_map[r] =>
                /\ call.result.some
                /\ y_map[call.result.draw_pos[2]] = r

\* C4: a query for an object whose depth row lies beyond the last row a
\* scanline reached returns None.  (Stated for a depth strictly between two
\* rows of the table, where the row of the object is not in question.)
C4_HiddenBehindCrestIsNone ==
    (/\ IsQuery
     /\ call.z_pos > z_map[0]
     /\ call.z_pos < z_map[ROAD_DISTANCE - 1]
     /\ \A r \in Rows : call.z_pos # z_map[r]
     /\ BehindCrest(EnclosingRow(call.z_pos)))
        => ~call.result.some

---------------------------------------------------------------------------
(* Claims about update_road_hills *)

AfterHills == call.op = "update_road_hills"

\* The running depth index before scanline hi: the sum of the advancements
\* applied at the scanlines lo..hi-1
RECURSIVE AppliedAdvance(_, _)
AppliedAdvance(lo, hi) ==
    IF lo >= hi THEN 0
    ELSE IF hi = lo + 1
    THEN (IF y_advancement_map[y_map[lo]] > MIN_ADVANCEMENT
          THEN y_advancement_map[y_map[lo]] ELSE MIN_ADVANCEMENT)
    ELSE AppliedAdvance(lo, (lo + hi) \div 2)
            + AppliedAdvance((lo + hi) \div 2, hi)

\* C7 as claimed: every entry of y_advancement_map is greater than 0.
C7_AdvanceTablePositive ==
    \A i \in Rows : y_advancement_map[i] > 0

\* C7 as amended: every advancement update_road_hills applies to the
\* running depth index (the table entry clamped to 0.00001) is greater than
\* 0, so the running index grows at every drawn scanline; the entries of
\* y_advancement_map themselves may be zero or negative.
C7_AppliedAdvancePositive ==
    /\ \A i \in Rows : advancement(y_advancement_map, i) > 0
    /\ AfterHills =>
          \A k \in 1..(draw_height - 1) :
              AppliedAdvance(0, k) > AppliedAdvance(0, k - 1)

\* update_road_hills ran on a hill steep enough for entries at or below 0
C7_Witness ==
    /\ AfterHills
    /\ \E i \in Rows : y_advancement_map[i] <= 0
    /\ \E k \in 1..(draw_height - 1) : y_map[k] = y_map[k - 1]

\* C8: after update_road_hills, y_map[k] is a depth row for k < draw_height
\* and the sentinel ROAD_DISTANCE for k >= draw_height, and draw_height is
\* the first scanline at which the running depth index left the depth
\* table (MAX_ROAD_DRAW_HEIGHT if it never did).
C8_ScanlinePartition ==
    AfterHills =>
        /\ draw_height \in 0..MAX_ROAD_DRAW_HEIGHT
        /\ \A k \in 0..(MAX_ROAD_DRAW_HEIGHT - 1) :
              IF k < draw_height
              THEN /\ y_map[k] \in Rows
                   /\ y_map[k] = AppliedAdvance(0, k) \div YF
              ELSE y_map[k] = ROAD_DISTANCE
        /\ draw_height < MAX_ROAD_DRAW_HEIGHT
              => AppliedAdvance(0, draw_height) \div YF >= ROAD_DISTANCE

\* update_road_hills ran on a road whose running index left the depth table
\* before scanline 110, and filled the table from draw_height on
C8_Witness ==
    /\ AfterHills
    /\ draw_height < ROAD_DISTANCE
    /\ y_map[draw_height] = ROAD_DISTANCE

---------------------------------------------------------------------------
(* Claims about render_road *)

AfterRender == call.op = "render_road"

Lines == 0..(MAX_ROAD_DRAW_HEIGHT - 1)
Columns == 0..(FIELD_WIDTH - 1)

\* The depth row line cur_line of the buffer shows
MappedRow(cur_line) == y_map[(MAX_ROAD_DRAW_HEIGHT - 1) - cur_line]

TransparentLine == [x \in Columns |-> <<0, 0, 0, 0>>]

\* C9: after render_road every line of the buffer has been written in this
\* call: a line whose mapped index is the sentinel is transparent, whatever
\* it held before; every pixel of a line that maps to a depth row is an
\* opaque colour; and two lines that map to the same depth row hold the same
\* pixels, the buffer being a function of the tables alone.
C9_BufferFullyOverwritten ==
    AfterRender =>
        /\ DOMAIN draw_buffer = Lines
        /\ \A l \in Lines :
              IF MappedRow(l) >= ROAD_DISTANCE
              THEN draw_buffer[l] = TransparentLine
              ELSE /\ DOMAIN draw_buffer[l] = Columns
                   /\ \A x \in Columns : draw_buffer[l][x][1] = 255
        /\ \A l \in 1..(MAX_ROAD_DRAW_HEIGHT - 1) :
              MappedRow(l) = MappedRow(l - 1) =>
                  draw_buffer[l] = draw_buffer[l - 1]

\* render_road has run on a buffer that showed road on a line the tables now
\* leave undrawn, and on two lines that now map to the same depth row
C9_Witness ==
    /\ AfterRender
    /\ \E l \in Lines :
          /\ MappedRow(l) >= ROAD_DISTANCE
          /\ call.before[l] # TransparentLine
    /\ \E l \in 1..(MAX_ROAD_DRAW_HEIGHT - 1) :
          /\ MappedRow(l) < ROAD_DISTANCE
          /\ MappedRow(l) = MappedRow(l - 1)

\* The tone the bands give column x of a line showing depth row `row`:
\* distances in X format, the widths being the band widths times the scale
BandTone(row, x) ==
    LET distance == Abs(x * XF - x_map[row])
        unit == scale_map[row] * (XF \div ZF)
        phase == ((z_map[row] + z_offset) \div COLOR_SWITCH_Z_INTERVAL) % 2
        tone(first, second) == IF phase = 0 THEN first ELSE second
    IN  IF distance <= CENTER_LINE_WIDTH * unit
        THEN tone(<<255, 255, 255, 255>>, <<51, 51, 51, 255>>)
        ELSE IF distance <= PAVEMENT_WIDTH * unit
        THEN tone(<<48, 48, 48, 255>>, <<51, 51, 51, 255>>)
        ELSE IF distance <= (PAVEMENT_WIDTH + RUMBLE_STRIP_WIDTH) * unit
        THEN tone(<<255, 255, 255, 255>>, <<255, 0, 0, 255>>)
        ELSE tone(<<255, 255, 145, 255>>, <<218, 218, 145, 255>>)

\* The bytes of a colour as the buffer holds them
Packed(color) == <<color[4], color[3], color[2], color[1]>>

\* Depth row `row` is the first row of the table in its segment
SegmentStartsAt(row) ==
    /\ row > 0
    /\ (z_map[row] + seg_pos) \div SEGMENT_LENGTH
          # (z_map[row - 1] + seg_pos) \div SEGMENT_LENGTH

\* C10 as stated: every pixel of a line that maps to a depth row holds the
\* tone of its band, and no other colour is written to a road line.
C10_OnlyBandTones ==
    AfterRender =>
        \A l \in Lines :
            MappedRow(l) < ROAD_DISTANCE =>
                \A x \in Columns :
                    draw_buffer[l][x] = Packed(BandTone(MappedRow(l), x))

\* C10 amended: every pixel of a line that maps to a depth row holds the
\* tone of its band, except on a line whose depth row is the first of a
\* segment, where every pixel holds 0x00FF00FF.
C10_BandTonesOrSegmentBoundary ==
    AfterRender =>
        \A l \in Lines :
            MappedRow(l) < ROAD_DISTANCE =>
                \A x \in Columns :
                    draw_buffer[l][x] =
                        IF SegmentStartsAt(MappedRow(l))
                        THEN Packed(<<0, 255, 0, 255>>)
                        ELSE Packed(BandTone(MappedRow(l), x))

\* render_road has drawn a line of each phase whose pixels fall on all four
\* bands, and a line at the start of a segment
C10_Witness ==
    /\ AfterRender
    /\ \E l \in Lines :
          /\ MappedRow(l) < ROAD_DISTANCE
          /\ SegmentStartsAt(MappedRow(l))
    /\ \A phase \in {0, 1} :
          \E l \in Lines :
             /\ MappedRow(l) < ROAD_DISTANCE
             /\ ~SegmentStartsAt(MappedRow(l))
             /\ ((z_map[MappedRow(l)] + z_offset)
                    \div COLOR_SWITCH_Z_INTERVAL) % 2 = phase
             /\ \A band \in {RoadColors.pavement[phase + 1],
                             RoadColors.rumble_strip[phase + 1],
                             RoadColors.offroad[phase + 1],
                             IF phase = 0 THEN RoadColors.center_line
                             ELSE RoadColors.pavement[2]} :
                   \E x \in Columns : draw_buffer[l][x] = Packed(band)

---------------------------------------------------------------------------
(* Claims about the schedule of a tick *)

\* The system that takes the step: every system records itself in call
Steps(op) == call'.op = op

\* C11: in every tick the advance of the road position has completed when
\* update_road_curvature or update_road_hills starts, and both projections
\* have completed when update_rival_visuals queries the tables and when
\* render_road reads them.
C11_AdvanceProjectThenRead ==
    [][/\ Steps("update_road_curvature") \/ Steps("update_road_hills")
            => "update_player_road_position" \in ran
       /\ Steps("get_draw_params_on_road") \/ Steps("render_road")
            => {"update_player_road_position", "update_road_curvature",
                "update_road_hills"} \subseteq ran]_vars

\* render_road has drawn the road of a tick in which the racer moved to the
\* side: the table it read is the projection of the new lateral offset
C11_Witness ==
    /\ call.op = "render_road"
    /\ x_offset # 0
    /\ x_map[0] = (FIELD_WIDTH * XF) \div 2 + x_offset

---------------------------------------------------------------------------
(* Claims about segment lookup and the projection of curves *)

NumSegs == Cardinality(DOMAIN segs)

\* The segment holding the point `forward` ahead of the road position, the
\* last segment extending indefinitely
SegmentAhead(forward) ==
    LET idx == seg_idx + (seg_pos + forward) \div SEGMENT_LENGTH
    IN  IF idx < NumSegs - 1 THEN idx ELSE NumSegs - 1

\* C12: on a list that is not empty, get_seg_curvature(pos_offset) returns,
\* without failing, the curve of the segment holding the point pos_offset
\* ahead, clamped to the last segment of the list.
C12_LookupClampsToLastSegment ==
    call.op = "get_seg_curvature" /\ NumSegs > 0 =>
        /\ ~panicked
        /\ ~call.result.panic
        /\ call.result.curve = segs[SegmentAhead(call.pos_offset)].curve

\* get_seg_curvature has answered for a point beyond the last segment, from
\* a position itself beyond the list
C12_Witness ==
    /\ call.op = "get_seg_curvature"
    /\ NumSegs = MaxSegments
    /\ seg_idx >= NumSegs
    /\ call.pos_offset > SEGMENT_LENGTH
    /\ ~call.result.panic
    /\ call.result.curve = MaxSegments

\* C13: with no segment, get_seg_curvature, update_road_curvature and
\* update_road_hills abort: none returns a curve, and no table is written.
C13_EmptyListIsFatal ==
    /\ NumSegs = 0
    /\ call.op \in {"get_seg_curvature", "update_road_curvature",
                    "update_road_hills"}
    => /\ panicked
       /\ call.op = "get_seg_curvature" => call.result = [panic |-> TRUE]
       /\ x_map = [i \in 0..(ROAD_DISTANCE - 1) |-> (FIELD_WIDTH * XF) \div 2]
       /\ y_map = [k \in 0..(MAX_ROAD_DRAW_HEIGHT - 1) |-> 0]
       /\ y_advancement_map = [i \in 0..(ROAD_DISTANCE - 1) |-> YF]
       /\ draw_height = ROAD_DISTANCE

\* get_seg_curvature has been called on the empty list
C13_Witness ==
    /\ NumSegs = 0
    /\ call.op = "get_seg_curvature"
    /\ panicked

\* The screen centre, X format
CenterX == (FIELD_WIDTH * XF) \div 2

StraightTrack == \A s \in DOMAIN segs : segs[s].curve = 0

AfterCurvature == call.op = "update_road_curvature" /\ ~panicked

\* C16: on a track without curves, after update_road_curvature
\* x_map[i] = centerX + L * (1 - i/110) at every row i, L the lateral offset;
\* with L = 0 every row holds centerX.
C16_ZeroCurvatureStraight ==
    AfterCurvature /\ StraightTrack =>
        \A i \in 0..(ROAD_DISTANCE - 1) :
            /\ x_map[i] =
                  CenterX + (x_offset \div ROAD_DISTANCE) * (ROAD_DISTANCE - i)
            /\ x_offset = 0 => x_map[i] = x_map[0]

\* update_road_curvature has projected a track without curves from a
\* position off the centre and beyond the first segment
C16_Witness ==
    /\ AfterCurvature
    /\ StraightTrack
    /\ x_offset < 0
    /\ seg_idx > 0
    /\ x_map[0] # x_map[ROAD_DISTANCE - 1]

\* C17 as stated: on a track without curves x_map[0] = centerX + L and
\* x_map[109] = centerX.
C17_NoEffectAtFarthestRow ==
    AfterCurvature /\ StraightTrack =>
        /\ x_map[0] = CenterX + x_offset
        /\ x_map[ROAD_DISTANCE - 1] = CenterX

\* C17 amended: on a track without curves x_map[0] = centerX + L, each row
\* is L/110 nearer to centerX than the row before it, and the farthest row
\* keeps x_map[109] = centerX + L/110.
C17_ConvergenceLaw ==
    AfterCurvature /\ StraightTrack =>
        /\ x_map[0] = CenterX + x_offset
        /\ \A i \in 1..(ROAD_DISTANCE - 1) :
              x_map[i - 1] - x_map[i] = x_offset \div ROAD_DISTANCE
        /\ x_map[ROAD_DISTANCE - 1] = CenterX + x_offset \div ROAD_DISTANCE

\* update_road_curvature has projected a track without curves with the
\* racer 495 to the side
C17_Witness ==
    /\ AfterCurvature
    /\ StraightTrack
    /\ x_offset = 495 * XF
    /\ x_map[0] = CenterX + 495 * XF

\* The curve map_road_quadratic has read at row i >= 1, from the second
\* difference of the table without its convergence term:
\* delta_value grows by parameter * coeff.x2 * delta_z at each row
CurveReadAt(i) ==
    LET v(j) == x_map[j] - (x_offset \div ROAD_DISTANCE) * (ROAD_DISTANCE - j)
        before == IF i = 1 THEN 0 ELSE v(i - 1) - v(i - 2)
    IN  ((v(i) - v(i - 1)) - before)
            \div (CURVE_COEFF.x2 * (z_map[i] - z_map[i - 1]))

\* C20: after update_road_curvature the curve read at every row i is that
\* of the segment holding the row's forward distance z_map[i] - z_map[0],
\* clamped to the list, on lists of any length.
C20_RowReadsItsSegment ==
    AfterCurvature /\ NumSegs > 0 =>
        \A i \in 1..(ROAD_DISTANCE - 1) :
            CurveReadAt(i) = segs[SegmentAhead(z_map[i] - z_map[0])].curve

---------------------------------------------------------------------------
(* Claims about build_road_static *)

\* The tables are being built, or have been, for the program's constants
BuildsProgramTables ==
    /\ call.op \in {"build_road_static", "startup_road"}
    /\ call.cfg = ProgramConfig

\* C14: the table built for the program's constants has, at every row i,
\* z_map[i] = 75 / (113.4 - i), positive, and scale_map[i] * z_map[i] = 1
\* (each to the nearest unit of the model); z_map grows and scale_map falls
\* strictly from each row to the next; and the table is the one the road
\* systems read.
C14_DepthTableMonotonic ==
    BuildsProgramTables =>
        /\ \A n \in 1..Len(call.z_map) :
              LET z == call.z_map[n]
                  scale == call.scale_map[n]
                  denominator == CONVERGE_DISTANCE - (n - 1) * ZF
              IN  /\ z > 0
                  /\ 2 * Abs(z * denominator - CAMERA_HEIGHT * ZF)
                        <= denominator
                  /\ 2 * Abs(scale * z - ZF * ZF) <= z
                  /\ z = z_map[n - 1]
                  /\ scale = scale_map[n - 1]
        /\ \A n \in 1..(Len(call.z_map) - 1) :
              /\ call.z_map[n] < call.z_map[n + 1]
              /\ call.scale_map[n] > call.scale_map[n + 1]

\* startup_road holds the 110 rows built for the program's constants
C14_Witness ==
    /\ call.op = "startup_road"
    /\ call.cfg = ProgramConfig
    /\ Len(call.z_map) = ROAD_DISTANCE
    /\ Len(call.scale_map) = ROAD_DISTANCE

\* A configuration whose reverse projection is degenerate: the converge
\* distance is not below the field height, or a row is on or beyond the
\* convergence line
Degenerate(cfg) ==
    \/ cfg.converge_distance >= cfg.field_height * ZF
    \/ \E i \in 0..(cfg.rows - 1) : cfg.converge_distance - i * ZF <= 0

\* C15: startup never completes with a degenerate configuration, nor with
\* a depth table that is not positive and strictly increasing.
C15_DegenerateConfigRejected ==
    call.op = "startup_road" /\ "cfg" \in DOMAIN call =>
        /\ ~Degenerate(call.cfg)
        /\ \A n \in 1..Len(call.z_map) : call.z_map[n] > 0
        /\ \A n \in 1..(Len(call.z_map) - 1) :
              call.z_map[n] < call.z_map[n + 1]

---------------------------------------------------------------------------
(* Claims about the screen position get_draw_params_on_road returns *)

\* C18: when get_draw_params_on_road(x, z) returns Some, its screen X is
\* x_map[row] + x * (1 - row/110) for a depth row whose scale is the one
\* returned; and the call leaves the road state as it was.
C18_ScreenXFromScaleRow ==
    [][call'.op = "get_draw_params_on_road" =>
          /\ UNCHANGED <<draw_height, x_map, y_map, x_offset, z_offset,
                         seg_idx, seg_pos, segs, y_advancement_map>>
          /\ call'.result.some =>
                \E row \in Rows :
                    /\ call'.result.scale = scale_map[row]
                    /\ call'.result.draw_pos[1] =
                          x_map[row]
                            + (call'.x_pos * (ROAD_DISTANCE - row))
                                 \div ROAD_DISTANCE]_vars

\* An object off the centre of the road has been placed at a middle row,
\* on a table that differs from row to row
C18_Witness ==
    /\ IsQuery
    /\ call.x_pos = 40 * XF
    /\ call.result.some
    /\ call.result.scale = scale_map[50]
    /\ call.result.draw_pos[1] # x_map[50]
    /\ x_map[50] # x_map[49]

---------------------------------------------------------------------------
(* Claims about the visible extent update_road_hills computes *)

FlatTrack == \A s \in DOMAIN segs : segs[s].hill = 0

\* Both segments of the road at hill = 0.02, in steps of hill_amt
HillTrack ==
    /\ NumSegs = 2
    /\ \A s \in DOMAIN segs : segs[s].hill = (2 * HILL_DEN) \div 100

\* C19: after update_road_hills on a flat track y_map[k] = k for every
\* k < 110 and draw_height = 110; with both segments at hill = 0.02
\* draw_height is not 110.
C19_FlatIdentityHillDiffers ==
    call.op = "update_road_hills" /\ ~panicked =>
        /\ FlatTrack =>
              /\ draw_height = ROAD_DISTANCE
              /\ \A k \in 0..(ROAD_DISTANCE - 1) : y_map[k] = k
        /\ HillTrack => draw_height # ROAD_DISTANCE

\* update_road_hills has run on the road with both hills at 0.02, and it
\* shows fewer scanlines than the flat road
C19_Witness ==
    /\ call.op = "update_road_hills"
    /\ HillTrack
    /\ draw_height < ROAD_DISTANCE
    /\ y_map[draw_height - 1] < ROAD_DISTANCE

---------------------------------------------------------------------------
(* Claims about the query against the rasterizer's row mapping *)

\* The depth row whose scale a result carries (scale_map falls strictly)
ScaleRow(result) == CHOOSE r \in Rows : scale_map[r] = result.scale

\* Depth row r is shown on some drawn scanline
IsDrawn(r) == \E k \in 0..(draw_height - 1) : y_map[k] = r

\* C21: when get_draw_params_on_road returns Some with screen Y = y from
\* depth row r, and some drawn scanline maps to r, then y_map[y] = r: the
\* sprite is on a scanline the rasterizer draws with that row.
C21_QueryOnRasterizedRow ==
    IsQuery /\ call.result.some /\ IsDrawn(ScaleRow(call.result)) =>
        /\ call.result.draw_pos[2] < draw_height
        /\ y_map[call.result.draw_pos[2]] = ScaleRow(call.result)

---------------------------------------------------------------------------
(* Claims about the tables of a tick as one snapshot *)

\* C22: the tables render_road and the query read are one snapshot of the
\* tick: x_map, y_map and draw_height are the projections of the segments
\* and the position as they are at the read, nothing having written them
\* between the two passes or since; test_curve_road does not run in between.
C22_TablesAreOneSnapshot ==
    call.op \in {"render_road", "get_draw_params_on_road"} =>
        /\ x_map = update_road_curvature
        /\ y_map = update_road_hills.y_map
        /\ draw_height = update_road_hills.draw_height

---------------------------------------------------------------------------
(* Claims about the recurrence of map_road_quadratic *)

\* out[i] - out[i-1], taken as out[0] - first at row 0
Step(out, first, i) == IF i = 0 THEN out[0] - first ELSE out[i] - out[i - 1]

\* The parameter of the segment the walk starts in
StartSegment == segs[IF seg_idx < NumSegs - 1 THEN seg_idx ELSE NumSegs - 1]

\* C23: map_road_quadratic computes d += p * x2 * (z_map[i] - z_map[i-1]),
\* acc += d, out[i] = acc + p * x from acc = initial value and d = 0.
\* Curvature pass, (x2, x) = (1, 0): row 0 is the initial value 160 and the
\* step of the table grows at each row by p * (z_map[i] - z_map[i-1]) for
\* the curve p of a segment (2 * p * dz in X format).  Hill pass,
\* (x2, x) = (0.5, 0.5), on a road of one hill p: row 0 is 1 + 0.5 * p and
\* the step grows by 0.5 * p * (z_map[i] - z_map[i-1]) (p * ZF and p * dz
\* in Y format).
C23_QuadraticRecurrence ==
    /\ AfterCurvature /\ NumSegs > 0 =>
          LET out == [i \in Rows |->
                         x_map[i] - (x_offset \div ROAD_DISTANCE)
                                        * (ROAD_DISTANCE - i)]
          IN  /\ out[0] = 160 * XF
              /\ \A i \in 1..(ROAD_DISTANCE - 1) :
                    \E s \in DOMAIN segs :
                        Step(out, 160 * XF, i) - Step(out, 160 * XF, i - 1)
                            = 2 * segs[s].curve * (z_map[i] - z_map[i - 1])
    /\ AfterHills /\ ~panicked /\ NumSegs > 0
          /\ (\A s \in DOMAIN segs : segs[s].hill = StartSegment.hill) =>
          LET p == StartSegment.hill
              out == y_advancement_map
          IN  /\ out[0] = YF + p * ZF
              /\ \A i \in 1..(ROAD_DISTANCE - 1) :
                    Step(out, YF + p * ZF, i) - Step(out, YF + p * ZF, i - 1)
                        = p * (z_map[i] - z_map[i - 1])

\* update_road_hills has projected the road with both hills at 0.02, after
\* update_road_curvature has projected it from a position to the side
C23_Witness ==
    /\ AfterHills
    /\ HillTrack
    /\ x_offset # 0
    /\ x_map[0] = 160 * XF + x_offset
    /\ y_advancement_map[0] > YF
    /\ y_advancement_map[ROAD_DISTANCE - 1] > y_advancement_map[0]

---------------------------------------------------------------------------
(* Claims about the player's speed *)

\* C24: in every state of play the player's speed is within
\* [0, RACER_MAX_SPEED], and at least PLAYER_MIN_SPEED after a speed update
\* made while not crashing; the distance speed * TIME_STEP passed to
\* advance_z is never negative, and its assertion never fails
C24_SpeedWithinLimits ==
    /\ 0 <= racer.speed
    /\ racer.speed <= RACER_MAX_SPEED
    /\ call.op = "update_player_speed" /\ ~call.crashing =>
            racer.speed >= PLAYER_MIN_SPEED
    /\ travel_amount >= 0
    /\ call.op = "advance_z" => call.amount >= 0
    /\ ~panicked

\* The brake held at the least speed, not crashing: the lower limit of the
\* clamp has acted
C24_Witness ==
    /\ call.op = "update_player_speed"
    /\ ~call.crashing
    /\ call.input.brake
    /\ call.before = PLAYER_MIN_SPEED
    /\ racer.speed = PLAYER_MIN_SPEED

---------------------------------------------------------------------------
(* Claims about the scanline table in every state *)

\* C25: in every state, initially and after every update_road_hills, the
\* whole of y_map is sorted in non-decreasing order (what the binary search
\* of get_draw_params_on_road requires), and within the drawn part the
\* running depth index is greater at each scanline than at the one before
C25_ScanlineTableSorted ==
    /\ \A k \in 1..(MAX_ROAD_DRAW_HEIGHT - 1) : y_map[k - 1] <= y_map[k]
    /\ AfterHills =>
          \A k \in 1..(draw_height - 1) :
              /\ AppliedAdvance(k - 1, k) > 0
              /\ AppliedAdvance(0, k) = AppliedAdvance(0, k - 1)
                                           + AppliedAdvance(k - 1, k)

\* update_road_hills ran on a climb: some scanlines share a depth row, the
\* road ends between scanlines 110 and 170, and the sentinel follows it
C25_Witness ==
    /\ AfterHills
    /\ draw_height > ROAD_DISTANCE
    /\ draw_height < MAX_ROAD_DRAW_HEIGHT
    /\ \E k \in 1..(draw_height - 1) : y_map[k] = y_map[k - 1]
    /\ y_map[draw_height - 1] < y_map[draw_height]

\* C26: in every state 1 <= draw_height <= MAX_ROAD_DRAW_HEIGHT, and
\* scanline 0 is drawn and maps to depth row 0; so draw_height - 1 in
\* reposition_skybox does not underflow, and the fill of
\* y_map[draw_height..MAX_ROAD_DRAW_HEIGHT] stays within the table
C26_DrawHeightInRange ==
    /\ 1 <= draw_height
    /\ draw_height <= MAX_ROAD_DRAW_HEIGHT
    /\ y_map[0] = 0
    /\ ~reposition_skybox_underflows
    /\ \A k \in draw_height..(MAX_ROAD_DRAW_HEIGHT - 1) : k \in DOMAIN y_map

\* update_road_hills ran on a climb that fills every scanline: draw_height
\* is at its upper limit and nothing is left to fill
C26_Witness ==
    /\ AfterHills
    /\ draw_height = MAX_ROAD_DRAW_HEIGHT
    /\ y_map[MAX_ROAD_DRAW_HEIGHT - 1] < ROAD_DISTANCE
    /\ y_map[0] = 0

---------------------------------------------------------------------------
(* Claims about the keys *)

\* The state the claim gives a key after a fixed-step update
Debounced(key_state, latch) ==
    IF latch
    THEN (IF key_state \in {"Released", "JustReleased"} THEN "JustPressed"
          ELSE "Pressed")
    ELSE (IF key_state \in {"Pressed", "JustPressed"} THEN "JustReleased"
          ELSE "Released")

\* C27: at every fixed-step update and for every key, with the latch set
\* the state goes Released/JustReleased -> JustPressed -> Pressed -> Pressed
\* and with the latch clear Pressed/JustPressed -> JustReleased -> Released
\* -> Released; JustPressed and JustReleased never follow themselves; and
\* is_pressed is true exactly in JustPressed and Pressed
C27_DebounceTransitions ==
    [][Steps("update_fixedframe_input") =>
          \A k \in Keys :
              /\ input_state'[k] = Debounced(input_state[k], press_state[k])
              /\ input_state[k] = "JustPressed" =>
                      input_state'[k] \in {"Pressed", "JustReleased"}
              /\ input_state[k] = "JustReleased" =>
                      input_state'[k] \in {"Released", "JustPressed"}
              /\ is_pressed(input_state'[k])
                      <=> input_state'[k] \in {"JustPressed", "Pressed"}]_vars

\* A fixed-step update has moved one key from JustPressed to Pressed and
\* another from JustReleased to Released
C27_Witness ==
    /\ call.op = "update_fixedframe_input"
    /\ call.before["left"] = "JustPressed" /\ input_state["left"] = "Pressed"
    /\ call.before["right"] = "JustReleased"
    /\ input_state["right"] = "Released"

\* C28: a key seen pressed by at least one update_instant_input since the
\* previous fixed-step update is reported pressed by the next one; a key not
\* seen pressed since then is reported not pressed; and every fixed-step
\* update clears the four latches
C28_NoPressLost ==
    call.op = "update_fixedframe_input" =>
        /\ \A k \in Keys : is_pressed(input_state[k]) <=> k \in call.observed
        /\ \A k \in Keys : ~press_state[k]

\* A key was pressed in one frame and released in the next, both before the
\* fixed-step update that reports it
C28_Witness ==
    /\ call.op = "update_fixedframe_input"
    /\ call.observed = {"accel"}
    /\ call.last_pressed = {}
    /\ input_state["accel"] = "JustPressed"

---------------------------------------------------------------------------
(* Claims about the run criteria *)

AfterCriteria == call.op = "run_criteria"

\* C29: with max_runs_per_step = Some(n) the criteria never answers
\* YesAndCheckAgain more than n times in a row; with the cap of 1 that main
\* configures it answers it at most once between two answers of No; and
\* every No leaves the run counter at 0
C29_RunCap ==
    AfterCriteria =>
        /\ state.framerate.max_runs_per_step.some =>
                call.in_a_row <= state.framerate.max_runs_per_step.value
        /\ state.framerate = MainFramerate => call.in_a_row <= 1
        /\ call.result = "No" => state.num_updates = 0

\* The criteria answered No at the cap of 2, after two runs in a row, with
\* a step of time accumulated
C29_Witness ==
    /\ AfterCriteria
    /\ call.result = "No"
    /\ call.before.num_updates = 2
    /\ call.before.accum_seconds + call.elapsed_secs
            >= state.framerate.fixed_step

\* C30: accum_seconds is never negative; YesAndCheckAgain is answered only
\* with accum_seconds >= fixed_step, and takes exactly one fixed_step off
\* it; with drop_time_after_max_runs, accum_seconds < fixed_step after
\* every No
C30_Accumulator ==
    /\ state.accum_seconds >= 0
    /\ AfterCriteria /\ call.result = "YesAndCheckAgain" =>
          /\ call.before.accum_seconds + call.elapsed_secs
                  >= state.framerate.fixed_step
          /\ state.accum_seconds =
                  call.before.accum_seconds + call.elapsed_secs
                      - state.framerate.fixed_step
    /\ AfterCriteria /\ call.result = "No"
            /\ state.framerate.drop_time_after_max_runs =>
          state.accum_seconds < state.framerate.fixed_step

\* Under the configuration of main the criteria answered No at the cap with
\* more than a step accumulated, and dropped it
C30_Witness ==
    /\ AfterCriteria
    /\ state.framerate = MainFramerate
    /\ call.result = "No"
    /\ call.before.accum_seconds + call.elapsed_secs
            > state.framerate.fixed_step
    /\ state.accum_seconds = 0

---------------------------------------------------------------------------
(* Claims about crashes and slides *)

\* The control loss crash() starts
FreshCrash ==
    [some |-> TRUE, kind |-> "Crash", resetting |-> FALSE,
     pre_reset_timer |-> [elapsed |-> 0, duration |-> TICKS_PER_SECOND],
     sprite_cycle_idx |-> 0, sprite_cycle_timer |-> [some |-> FALSE]]

\* The control loss slide(direction) starts
FreshSlide(direction) ==
    [some |-> TRUE, kind |-> "Slide", direction |-> direction,
     timer |-> [elapsed |-> 0,
                duration |-> (2 * TICKS_PER_SECOND) \div 3]]

\* C31: while the player is crashing neither crash() nor slide() changes
\* control_loss (resetting flag, timers and sprite cycle are kept); with no
\* control loss or in a slide, crash() starts a fresh crash and slide(d) a
\* fresh slide with direction d and its timer at 0
C31_ControlLossPriority ==
    [][Steps("check_passed_objects") /\ Len(call'.actions) = 1 =>
          LET before == player.control_loss
              after == player'.control_loss
              action == call'.actions[1]
          IN  IF before.some /\ before.kind = "Crash" THEN after = before
              ELSE IF action = "CrashPlayer" THEN after = FreshCrash
              ELSE after = FreshSlide(action)]_vars

\* A slide was asked for while the crash was in its reset phase, and the
\* crash went on
C31_Witness ==
    /\ call.op = "check_passed_objects"
    /\ call.actions = <<"Right">>
    /\ player.control_loss.some
    /\ player.control_loss.kind = "Crash"
    /\ player.control_loss.resetting

---------------------------------------------------------------------------
(* Crashes from start to end: the player's systems with an object hit in
   every tick, run as the schedule runs them, tick after tick *)

\* The distance travelled in this specification, Z format: past the
\* distance a crash at the top speed takes to stop
CrashMaxTravel == 19500

CrashLimits == [travel |-> CrashMaxTravel]

\* Lateral offsets a crash starts at (X format): left of the centre, and
\* near the right edge of the field
CrashOffsets == {-250 * XF, 495 * XF}

\* Speeds a crash starts at: at rest, and the top speed
CrashSpeeds == {0, RACER_MAX_SPEED}

\* The collisions of a tick: an object that crashes the player
CrashCollisions == {<<"CrashPlayer">>}

\* The keys update_player_speed reads: none (in a crash it reads none)
CrashSpeedInputs == {[brake |-> FALSE, accel |-> FALSE, turbo |-> FALSE]}

InitCrash ==
    /\ x_map = [i \in 0..(ROAD_DISTANCE - 1) |-> (FIELD_WIDTH * XF) \div 2]
    /\ y_map = [k \in 0..(MAX_ROAD_DRAW_HEIGHT - 1) |-> 0]
    /\ draw_height = ROAD_DISTANCE
    /\ x_offset \in CrashOffsets
    /\ z_offset = 0
    /\ seg_idx = 0
    /\ seg_pos = 0
    /\ segs = [s \in 0..1 |-> [curve |-> 0, hill |-> 0]]
    /\ HillScratchPadDefault
    /\ draw_buffer = <<>>
    /\ ran = {}
    /\ panicked = FALSE
    /\ call = [op |-> "startup_player"]
    /\ racer \in [speed : CrashSpeeds, turn_rate : {0}, is_visible : {TRUE}]
    /\ player = [turn_buffer |-> reset_turn_buffer, control_loss |-> None]
    /\ startup_joyride
    /\ startup_road_objects
    /\ state = FixedFramerateState_new(MainFramerate)
    /\ sampled = <<>>

NextCrash ==
    \/ \E input \in TurnInputs : UpdatePlayerTurning(PlayerSystems, input)
    \/ \E input \in CrashSpeedInputs : UpdatePlayerSpeed(PlayerSystems, input)
    \/ UpdatePlayerCrash(PlayerSystems)
    \/ \E pull \in Pulls :
            UpdatePlayerRoadPosition(PlayerSystems, CrashLimits,
                                     travel_amount, road_x(pull))
    \/ \E actions \in CrashCollisions :
            CheckPassedObjects(PlayerSystems, actions)

SpecCrash == InitCrash /\ [][NextCrash]_vars

\* The schedule runs every system of the stage in every tick, and the ticks
\* go on: some system is always about to run
FairSpecCrash == SpecCrash /\ WF_vars(NextCrash)

\* The player travelled no further than this (Z format) has the room to
\* stop from any speed within CrashMaxTravel
CrashRoom == 1000

HasRoomToStop == seg_idx * SEGMENT_LENGTH + seg_pos <= CrashRoom

\* C32: a crash ends.  Only update_player_crash ends it, and it leaves no
\* control loss, the offset 0, the least speed of play, the racer visible
\* and the turn buffer cleared; the reset phase starts at speed 0 with the
\* pre-reset timer elapsed, and a run of it that does not end the crash
\* leaves the racer not visible and the offset nearer to 0; and with the
\* ticks going on every crash comes to its end
C32_CrashEnds ==
    /\ [][is_crashing(player.control_loss) /\ ~is_crashing(player'.control_loss)
            => /\ Steps("update_player_crash")
               /\ player.control_loss.resetting
               /\ player' = [turn_buffer |-> reset_turn_buffer,
                             control_loss |-> None]
               /\ x_offset' = 0
               /\ racer'.speed = PLAYER_MIN_SPEED
               /\ racer'.is_visible]_vars
    /\ [][is_crashing(player.control_loss) /\ is_crashing(player'.control_loss)
            /\ ~player.control_loss.resetting /\ player'.control_loss.resetting
            => /\ Steps("update_player_crash")
               /\ racer.speed = 0
               /\ player'.control_loss.pre_reset_timer.elapsed
                    = TICKS_PER_SECOND]_vars
    /\ [][Steps("update_player_crash") /\ is_crashing(player.control_loss)
            /\ player.control_loss.resetting
            /\ is_crashing(player'.control_loss)
            => /\ ~racer'.is_visible
               /\ 0 <= x_offset' /\ x_offset' < x_offset]_vars
    /\ (is_crashing(player.control_loss) /\ HasRoomToStop)
            ~> ~player.control_loss.some

\* A crash that began at the top speed and to the right of the centre has
\* ended: the speed fell to 0, the timer ran out and the reset phase brought
\* the racer back
C32_Witness ==
    /\ call.op = "update_player_crash"
    /\ is_crashing(call.before)
    /\ ~player.control_loss.some
    /\ seg_idx * SEGMENT_LENGTH + seg_pos > 18000
    /\ x_offset = 0
    /\ racer.speed = PLAYER_MIN_SPEED
    /\ racer.is_visible

---------------------------------------------------------------------------
(* Steering: the systems that write the turn buffer and the turn rate, with
   the steering keys free and any collision in any tick *)

TurnSystems == {"update_player_turning", "update_player_speed",
                "update_player_crash", "check_passed_objects"}

\* The keys update_player_turning reads: any of left and right
SteeringInputs == [left : BOOLEAN, right : BOOLEAN]

InitTurn ==
    /\ x_map = [i \in 0..(ROAD_DISTANCE - 1) |-> (FIELD_WIDTH * XF) \div 2]
    /\ y_map = [k \in 0..(MAX_ROAD_DRAW_HEIGHT - 1) |-> 0]
    /\ draw_height = ROAD_DISTANCE
    /\ x_offset = 0
    /\ z_offset = 0
    /\ seg_idx = 0
    /\ seg_pos = 0
    /\ segs = [s \in 0..1 |-> [curve |-> 0, hill |-> 0]]
    /\ HillScratchPadDefault
    /\ draw_buffer = <<>>
    /\ ran = {}
    /\ panicked = FALSE
    /\ call = [op |-> "startup_player"]
    /\ startup_game

NextTurn ==
    \/ \E input \in SteeringInputs : UpdatePlayerTurning(TurnSystems, input)
    \/ \E input \in CrashSpeedInputs : UpdatePlayerSpeed(TurnSystems, input)
    \/ UpdatePlayerCrash(TurnSystems)
    \/ \E actions \in Collisions : CheckPassedObjects(TurnSystems, actions)

SpecTurn == InitTurn /\ [][NextTurn]_vars

\* No key held
NoTurn == [left |-> FALSE, right |-> FALSE]

\* C33: the keys update_player_turning applies are those it read
\* TURN_BUFFER_SIZE runs earlier, and none while fewer runs have passed
\* since the end of a slide or crash (or the start); with no control loss
\* they move the turn rate (left down, right up, neither towards 0); the
\* turn rate stays within [-MAX_TURN_RATE, MAX_TURN_RATE], and a run while
\* crashing leaves it 0
C33_TurnDelay ==
    /\ [][Steps("update_player_turning") =>
            LET next_turn == player.turn_buffer[0]
                before == racer.turn_rate
                after == racer'.turn_rate
                turn_accel == PLAYER_TURN_ACCEL \div TICKS_PER_SECOND
                turn_falloff == PLAYER_TURN_FALLOFF \div TICKS_PER_SECOND
            IN  /\ next_turn = IF Len(sampled) = TURN_BUFFER_SIZE
                               THEN sampled[1] ELSE NoTurn
                /\ ~player.control_loss.some =>
                     /\ next_turn.left /\ ~next_turn.right =>
                            after < before \/ after = -MAX_TURN_RATE
                     /\ next_turn.right /\ ~next_turn.left =>
                            after > before \/ after = MAX_TURN_RATE
                     /\ next_turn.left /\ next_turn.right =>
                            after \in {before, turn_accel - MAX_TURN_RATE}
                     /\ next_turn = NoTurn =>
                            /\ Abs(after) <= Abs(before)
                            /\ after = 0 \/ Abs(after) = Abs(before) - turn_falloff
                /\ is_crashing(player.control_loss) => after = 0]_vars
    /\ [](-MAX_TURN_RATE <= racer.turn_rate /\ racer.turn_rate <= MAX_TURN_RATE)

\* Left was read three runs ago and is applied now, while right is held:
\* the turn rate went from 0 to the left by one tick of PLAYER_TURN_ACCEL
C33_Witness ==
    /\ call.op = "update_player_turning"
    /\ call.next_turn = [left |-> TRUE, right |-> FALSE]
    /\ call.input = [left |-> FALSE, right |-> TRUE]
    /\ sampled = <<NoTurn, NoTurn, [left |-> FALSE, right |-> TRUE]>>
    /\ ~player.control_loss.some
    /\ racer.turn_rate = -(PLAYER_TURN_ACCEL \div TICKS_PER_SECOND)

---------------------------------------------------------------------------
(* Road objects (src/src/road_object.rs): check_passed_objects over the
   objects themselves *)

\* whole number, as in the source
PLAYER_COLLISION_WIDTH == 30

\* A collider that reports a collision with anything to its right
collider_colliding_left_edge_only(collider, x_pos, player_x) ==
    collider.left + x_pos <= player_x + (PLAYER_COLLISION_WIDTH * XF) \div 2

\* collider_colliding_with_player: x_pos, player_x and the collider's edges
\* in X format
collider_colliding_with_player(collider, x_pos, player_x) ==
    LET coll_left == collider.left + x_pos
        coll_right == collider.right + x_pos
        player_left == player_x - (PLAYER_COLLISION_WIDTH * XF) \div 2
        player_right == player_x + (PLAYER_COLLISION_WIDTH * XF) \div 2
    IN  coll_left <= player_right /\ player_left <= coll_right

\* object_colliding_with_player: obj.x_pos is a whole number, scale in Z
\* format
object_colliding_with_player(obj, player_x, scale) ==
    \/ /\ obj.collider1.some
       /\ collider_colliding_with_player(obj.collider1,
                                         obj.x_pos * ZToX(scale), player_x)
    \/ /\ obj.collider2.some
       /\ collider_colliding_with_player(obj.collider2,
                                         obj.x_pos * ZToX(scale), player_x)

\* The orders in which a query can iterate over the entities of ents
QueryOrders(ents) ==
    {order \in [1..Cardinality(ents) -> ents] :
        \A i, j \in 1..Cardinality(ents) : order[i] = order[j] => i = j}

\* check_passed_objects: the objects it despawns, those whose z_pos less
\* the tick's travel is below the nearest depth
passed_objects ==
    {ent \in DOMAIN objects : objects[ent].z_pos - travel_amount < z_map[0]}

\* check_passed_objects: what it does to the player for the objects passed
\* and colliding, in the order of the query
collision_actions(order) ==
    LET player_x == -x_offset
        action(ent) ==
            IF objects[ent].collision_action = "CrashPlayer"
            THEN "CrashPlayer"
            ELSE IF objects[ent].x_pos * XF > player_x THEN "Left"
            ELSE "Right"
        RECURSIVE from(_)
        from(n) ==
            IF n > Len(order) THEN <<>>
            ELSE IF /\ order[n] \in passed_objects
                    /\ object_colliding_with_player(objects[order[n]],
                                                    player_x, scale_map[0])
            THEN <<action(order[n])>> \o from(n + 1)
            ELSE from(n + 1)
    IN  from(1)

\* check_passed_objects with the query iterating in `order`: every object
\* moves nearer by the tick's travel, the passed ones act on the player and
\* are despawned (the despawn commands are applied when the stage ends,
\* before the next tick)
CheckPassedRoadObjects(systems, order) ==
    /\ Run("check_passed_objects", systems)
    /\ player' = [player EXCEPT !.control_loss =
                        check_passed_objects(collision_actions(order))]
    /\ objects' = [ent \in DOMAIN objects \ passed_objects |->
                      [objects[ent] EXCEPT !.z_pos = @ - travel_amount]]
    /\ call' = [op |-> "check_passed_objects",
                actions |-> collision_actions(order),
                order |-> order]
    /\ UNCHANGED <<racer, input_state, press_state, state, sampled>>
    /\ UNCHANGED <<draw_height, x_map, y_map, x_offset, z_offset, seg_idx,
                   seg_pos, segs, y_advancement_map, draw_buffer, panicked>>

\* The collider spawn_objects gives a road sign (X format)
SignCollider == [some |-> TRUE, left |-> -43 * XF, right |-> 43 * XF]

\* Depths of the objects at the start (Z format): within a few ticks of the
\* nearest depth
ObjectDepths == {z_map[0] + 40, z_map[0] + 90, z_map[0] + 300}

\* The objects: at the lateral positions of the road signs, with the sign's
\* collider as the first or as the second collider, crashing or sliding
\* the player
ObjectKinds ==
    [x_pos : {-204, 204},
     z_pos : ObjectDepths,
     collider1 : {SignCollider, None},
     collider2 : {SignCollider, None},
     collision_action : {"CrashPlayer", "SlidePlayer"}]

\* Lateral offsets (X format): the centre of the road, and the player in
\* front of the signs to the right
ObjectOffsets == {0, -310 * XF}

\* Speeds: the least speed of play and the top speed
ObjectSpeeds == {PLAYER_MIN_SPEED, RACER_MAX_SPEED}

\* Two objects ahead of the player, each with one collider, the first
\* the nearer
InitObjects ==
    /\ x_map = [i \in 0..(ROAD_DISTANCE - 1) |-> (FIELD_WIDTH * XF) \div 2]
    /\ y_map = [k \in 0..(MAX_ROAD_DRAW_HEIGHT - 1) |-> 0]
    /\ draw_height = ROAD_DISTANCE
    /\ x_offset \in ObjectOffsets
    /\ z_offset = 0
    /\ seg_idx = 0
    /\ seg_pos = 0
    /\ segs = [s \in 0..1 |-> [curve |-> 0, hill |-> 0]]
    /\ HillScratchPadDefault
    /\ draw_buffer = <<>>
    /\ ran = {}
    /\ panicked = FALSE
    /\ call = [op |-> "startup_road_objects"]
    /\ racer \in [speed : ObjectSpeeds, turn_rate : {0}, is_visible : {TRUE}]
    /\ player = [turn_buffer |-> reset_turn_buffer, control_loss |-> None]
    /\ sampled = <<>>
    /\ startup_joyride
    /\ state = FixedFramerateState_new(MainFramerate)
    /\ objects \in [1..2 -> ObjectKinds]
    /\ objects[1].z_pos < objects[2].z_pos
    /\ \A ent \in 1..2 : objects[ent].collider1.some
                            # objects[ent].collider2.some

NextObjects ==
    \/ \E input \in TurnInputs : UpdatePlayerTurning(PlayerSystems, input)
    \/ \E input \in CrashSpeedInputs : UpdatePlayerSpeed(PlayerSystems, input)
    \/ UpdatePlayerCrash(PlayerSystems)
    \/ \E pull \in Pulls :
            UpdatePlayerRoadPosition(PlayerSystems, PlayerLimits,
                                     travel_amount, road_x(pull))
    \/ \E order \in QueryOrders(DOMAIN objects) :
            CheckPassedRoadObjects(PlayerSystems, order)

SpecObjects == InitObjects /\ [][NextObjects]_vars

---------------------------------------------------------------------------
(* Claims about road objects *)

\* A collider of obj and the player share a point of the x axis
Overlaps(obj) ==
    LET max(a, b) == IF a > b THEN a ELSE b
        min(a, b) == IF a < b THEN a ELSE b
        centre == obj.x_pos * ZToX(scale_map[0])
        half == (PLAYER_COLLISION_WIDTH * XF) \div 2
        meets(collider) ==
            /\ collider.some
            /\ max(collider.left + centre, -x_offset - half)
                    <= min(collider.right + centre, -x_offset + half)
    IN  meets(obj.collider1) \/ meets(obj.collider2)

\* The control losses a collision starts
FreshControlLosses == {FreshCrash, FreshSlide("Left"), FreshSlide("Right")}

\* C34: check_passed_objects despawns exactly the objects whose z_pos less
\* the tick's travel is below z_map[0] and moves the others nearer by the
\* travel; each despawned object whose collider overlaps the player acts
\* on the player once, in that run, and no other object does: with none
\* the Player is left as it is, with some a player not crashing crashes if
\* any of them crashes the player and slides otherwise; a despawned object
\* never returns, and a control loss starts in no other system
C34_PassedOnce ==
    /\ [][Steps("check_passed_objects") =>
            LET travelled(ent) == objects[ent].z_pos - travel_amount
                passed == {ent \in DOMAIN objects :
                                travelled(ent) < z_map[0]}
                hit == {ent \in passed : Overlaps(objects[ent])}
                crashes == {ent \in hit :
                                objects[ent].collision_action = "CrashPlayer"}
            IN  /\ DOMAIN objects' = DOMAIN objects \ passed
                /\ \A ent \in DOMAIN objects' :
                        objects'[ent] =
                            [objects[ent] EXCEPT !.z_pos = travelled(ent)]
                /\ Len(call'.actions) = Cardinality(hit)
                /\ hit = {} => player' = player
                /\ hit # {} /\ ~is_crashing(player.control_loss) =>
                        IF crashes # {}
                        THEN player'.control_loss = FreshCrash
                        ELSE player'.control_loss
                                \in {FreshSlide("Left"), FreshSlide("Right")}]_vars
    /\ [][DOMAIN objects' \subseteq DOMAIN objects]_vars
    /\ [][player'.control_loss # player.control_loss
            /\ player'.control_loss \in FreshControlLosses
            => Steps("check_passed_objects")]_vars

\* The nearer object was passed in front of the player and made the player
\* slide; the other, further away, is still there
C34_Witness ==
    /\ call.op = "check_passed_objects"
    /\ call.actions = <<"Right">>
    /\ player.control_loss = FreshSlide("Right")
    /\ DOMAIN objects = {2}
    /\ objects[2].z_pos >= z_map[0]

---------------------------------------------------------------------------
(* The road tables under curves and a hill, with the racer at the edge of
   the road *)

OffroadSystems == {"test_curve_road", "update_player_road_position",
                   "update_road_curvature", "update_road_hills"}

\* test_curve_road bends the road by at most this many steps either way
OffroadCurveSteps == 1
\* and lowers a hill by at most this many steps
OffroadHillSteps == 1

OffroadLimits == [uphill |-> OffroadHillSteps, downhill |-> 0,
                  curve |-> OffroadCurveSteps, travel |-> 0]

OffroadKeys == {{}, {"A"}, {"D"}, {"I"}}

\* The outer edge of the rumble strip on the nearest row (X format)
RoadEdge == (PAVEMENT_WIDTH + RUMBLE_STRIP_WIDTH) * ZToX(scale_map[0])

\* Where the racer moves to (X format): the centre of the road, the edge
\* of the road on either side, and one unit of the format beyond it
OffroadMoves == {0, RoadEdge, RoadEdge + 1, -RoadEdge, -RoadEdge - 1}

NextOffroad ==
    \/ \E pressed \in OffroadKeys :
            TestCurveRoad(OffroadSystems, OffroadLimits, pressed)
    \/ \E to_x \in OffroadMoves :
            UpdatePlayerRoadPosition(OffroadSystems, OffroadLimits, 0, to_x)
    \/ UpdateRoadCurvature(OffroadSystems)
    \/ UpdateRoadHills(OffroadSystems)

SpecOffroad == InitRoad /\ [][NextOffroad]_vars

---------------------------------------------------------------------------
(* Claims about is_offroad *)

\* x_map is the projection of the road for the lateral offset as it is
Projected == ~panicked /\ x_map = update_road_curvature

\* The pixel render_road writes at the centre column of the bottom line
CentrePixel == render_line(MAX_ROAD_DRAW_HEIGHT - 1)[FIELD_WIDTH \div 2]

OffroadPixels ==
    {from_current_into_big_endian(RoadColors.offroad[tone]) : tone \in 1..2}

\* C35: the bottom line of the screen shows depth row 0, and with x_map
\* projected for the lateral offset as it is, is_offroad is true exactly
\* when render_road gives the pixel at the centre column (x = 160) of that
\* line a colour of the off-road band, whatever the curves of the road are
C35_OffroadAgrees ==
    /\ y_map[0] = 0
    /\ Projected => (is_offroad <=> CentrePixel \in OffroadPixels)

\* On a road bent to the right under a hill the racer is one unit of the
\* format beyond the rumble strip: off the road, and the pixel shows it
C35_Witness ==
    /\ Projected
    /\ segs[0].curve = 1
    /\ segs[0].hill = -1
    /\ call.op = "update_road_hills"
    /\ x_offset = -RoadEdge - 1
    /\ is_offroad
    /\ CentrePixel \in OffroadPixels

=============================================================================
